---- MODULE Spec2Model ----
(***************************************************************************)
(* Model of the meal-analysis pipeline of calorie-tracker-backend:         *)
(*   extractJsonObject and validateAndNormalizeNutritionData of the        *)
(*   Gemini service, over an explicit model of JavaScript (JSON) values.   *)
(*                                                                         *)
(* JavaScript values are records [k |-> kind, v |-> payload]:              *)
(*   undef, null, bool, str (sequence of one-character strings),           *)
(*   arr (sequence of values), obj (sequence of <<key, value>> pairs in    *)
(*   insertion order, keys are character sequences), and the numbers       *)
(*   num (finite, v counts thousandths), huge (finite, 1e308 in magnitude, *)
(*   v is the sign), inf (v is the sign) and nan.                          *)
(***************************************************************************)
EXTENDS Integers, Sequences, FiniteSets, TLC

VARIABLES pc, data, result, x, raw, extracted,
          before, after,
          apiKey, op, imageData, calls, thrown, wraps, outcome,
          req, res,
          tasks, entries, now, nodeEnv

\* the prose around a serialized object
proseVars == <<before, after>>

\* one call of the service: the credential of the process, the operation and
\* its image argument, the external calls made so far, the error first
\* raised, the number of calls of wrapGeminiError, and how the call settled
serviceVars == <<apiKey, op, imageData, calls, thrown, wraps, outcome>>

\* one request of the routes and the response sent
routeVars == <<req, res>>

\* concurrent calls of the service, one record for each
concurrentVars == <<tasks>>

\* the entries collection of the database and the clock of the process (in
\* milliseconds, as Date.now gives it)
storeVars == <<entries, now>>

\* process.env.NODE_ENV
envVars == <<nodeEnv>>

vars == <<pc, data, result, x, raw, extracted, proseVars, serviceVars, routeVars,
          concurrentVars, storeVars, envVars>>

----------------------------------------------------------------------------
(* JavaScript values *)

Undefined == [k |-> "undef", v |-> <<>>]
Null == [k |-> "null", v |-> <<>>]
Bool(b) == [k |-> "bool", v |-> b]
Num(n) == [k |-> "num", v |-> n]
HugeOf(s) == [k |-> "huge", v |-> s]
Huge == HugeOf(1)
Inf(s) == [k |-> "inf", v |-> s]
NaN == [k |-> "nan", v |-> 0]
Str(cs) == [k |-> "str", v |-> cs]
Arr(es) == [k |-> "arr", v |-> es]
Obj(ps) == [k |-> "obj", v |-> ps]

\* typeof x === 'number'
IsNumber(a) == a.k \in {"num", "huge", "inf", "nan"}

\* Number.isFinite(x)
IsFinite(a) == a.k \in {"num", "huge"}

\* the thousandths in one unit, Num(Unit) is the number 1: one decimal place
\* below the hundredths roundToTwo rounds to
Unit == 10 * 100

\* key and text literals, as character sequences
K_dishes == <<"d", "i", "s", "h", "e", "s">>
K_total == <<"t", "o", "t", "a", "l">>
K_name == <<"n", "a", "m", "e">>
K_nutrition == <<"n", "u", "t", "r", "i", "t", "i", "o", "n">>
K_calories == <<"c", "a", "l", "o", "r", "i", "e", "s">>
K_protein_g == <<"p", "r", "o", "t", "e", "i", "n", "_", "g">>
K_carbs_g == <<"c", "a", "r", "b", "s", "_", "g">>
K_fat_g == <<"f", "a", "t", "_", "g">>
K_toString == <<"t", "o", "S", "t", "r", "i", "n", "g">>

\* obj[key] for a JSON-decoded value: own properties only exist on objects,
\* and none of the keys the service reads is inherited from a prototype
RECURSIVE Lookup(_, _, _)
Lookup(ps, key, i) ==
  IF i = 0 THEN Undefined
  ELSE IF ps[i][1] = key THEN ps[i][2]
  ELSE Lookup(ps, key, i - 1)

Get(o, key) == IF o.k = "obj" THEN Lookup(o.v, key, Len(o.v)) ELSE Undefined

HasOwn(o, key) == o.k = "obj" /\ \E i \in 1..Len(o.v) : o.v[i][1] = key

\* ToBoolean
Truthy(a) ==
  CASE a.k \in {"undef", "null", "nan"} -> FALSE
    [] a.k = "bool" -> a.v
    [] a.k = "num" -> a.v # 0
    [] a.k = "str" -> Len(a.v) > 0
    [] OTHER -> TRUE

\* a || b
Or(a, b) == IF Truthy(a) THEN a ELSE b

----------------------------------------------------------------------------
(* Strings and numbers *)

WhiteSpace == {" ", "\n", "\t"}

\* String.prototype.trim
RECURSIVE TrimLeft(_)
TrimLeft(cs) ==
  IF cs # <<>> /\ Head(cs) \in WhiteSpace THEN TrimLeft(Tail(cs)) ELSE cs

RECURSIVE TrimRight(_)
TrimRight(cs) ==
  IF cs # <<>> /\ cs[Len(cs)] \in WhiteSpace
  THEN TrimRight(SubSeq(cs, 1, Len(cs) - 1))
  ELSE cs

Trim(cs) == TrimRight(TrimLeft(cs))

DigitChars == <<"0", "1", "2", "3", "4", "5", "6", "7", "8", "9">>

IsDigit(c) == \E d \in 1..10 : DigitChars[d] = c

DigitVal(c) == (CHOOSE d \in 1..10 : DigitChars[d] = c) - 1

AllDigits(cs) == \A i \in 1..Len(cs) : IsDigit(cs[i])

\* the natural number a digit sequence denotes
RECURSIVE DigitsVal(_)
DigitsVal(cs) ==
  IF cs = <<>> THEN 0
  ELSE 10 * DigitsVal(SubSeq(cs, 1, Len(cs) - 1)) + DigitVal(cs[Len(cs)])

\* the thousandths a fraction's digit sequence denotes (digits past the
\* third are below the resolution of the number model)
FracVal(cs) ==
  LET d(i) == IF i <= Len(cs) THEN DigitVal(cs[i]) ELSE 0
  IN 100 * d(1) + 10 * d(2) + d(3)

\* the position of the first c in cs, or 0
FirstIndex(cs, c) ==
  IF \E i \in 1..Len(cs) : cs[i] = c
  THEN CHOOSE i \in 1..Len(cs) : cs[i] = c /\ \A j \in 1..(i - 1) : cs[j] # c
  ELSE 0

\* the position of the last c in cs, or 0
LastIndex(cs, c) ==
  IF \E i \in 1..Len(cs) : cs[i] = c
  THEN CHOOSE i \in 1..Len(cs) : cs[i] = c /\ \A j \in (i + 1)..Len(cs) : cs[j] # c
  ELSE 0

\* an unsigned decimal literal: digits, digits.digits, .digits or digits.
IsUnsignedDecimal(cs) ==
  LET dot == FirstIndex(cs, ".")
      ip == IF dot = 0 THEN cs ELSE SubSeq(cs, 1, dot - 1)
      fp == IF dot = 0 THEN <<>> ELSE SubSeq(cs, dot + 1, Len(cs))
  IN AllDigits(ip) /\ AllDigits(fp) /\ Len(ip) + Len(fp) > 0

UnsignedDecimalVal(cs) ==
  LET dot == FirstIndex(cs, ".")
      ip == IF dot = 0 THEN cs ELSE SubSeq(cs, 1, dot - 1)
      fp == IF dot = 0 THEN <<>> ELSE SubSeq(cs, dot + 1, Len(cs))
  IN Unit * DigitsVal(ip) + FracVal(fp)

S_Infinity == <<"I", "n", "f", "i", "n", "i", "t", "y">>
S_NaN == <<"N", "a", "N">>
S_huge == <<"1", "e", "+", "3", "0", "8">>
S_true == <<"t", "r", "u", "e">>
S_false == <<"f", "a", "l", "s", "e">>
S_null == <<"n", "u", "l", "l">>
S_object == <<"[", "o", "b", "j", "e", "c", "t", " ", "O", "b", "j", "e", "c", "t", "]">>

\* StringToNumber (ToNumber applied to a string): the empty or blank string
\* is 0, a decimal literal or Infinity (optionally signed) is its value, and
\* everything else is NaN.  Hexadecimal, binary and exponent literals other
\* than 1e+308 are outside the alphabet of the modelled inputs.
StringToNumber(cs) ==
  LET t == Trim(cs)
      signed == t # <<>> /\ Head(t) \in {"+", "-"}
      sign == IF t # <<>> /\ Head(t) = "-" THEN -1 ELSE 1
      body == IF signed THEN Tail(t) ELSE t
  IN IF t = <<>> THEN Num(0)
     ELSE IF body = S_Infinity THEN Inf(sign)
     ELSE IF body = S_huge THEN HugeOf(sign)
     ELSE IF IsUnsignedDecimal(body) THEN Num(sign * UnsignedDecimalVal(body))
     ELSE NaN

\* the decimal digits of a natural number
RECURSIVE NatToChars(_)
NatToChars(n) ==
  IF n < 10 THEN <<DigitChars[n + 1]>>
  ELSE NatToChars(n \div 10) \o <<DigitChars[(n % 10) + 1]>>

\* the digits of f thousandths, 0 < f < 1000, without trailing zeros
FracToChars(f) ==
  LET d1 == DigitChars[(f \div 100) + 1]
      d2 == DigitChars[((f \div 10) % 10) + 1]
      d3 == DigitChars[(f % 10) + 1]
  IN IF f % 100 = 0 THEN <<d1>>
     ELSE IF f % 10 = 0 THEN <<d1, d2>>
     ELSE <<d1, d2, d3>>

\* Number::toString
NumberToString(a) ==
  LET m == IF a.v < 0 THEN -a.v ELSE a.v
      digits == NatToChars(m \div Unit) \o
                (IF m % Unit = 0 THEN <<>> ELSE <<".">> \o FracToChars(m % Unit))
  IN CASE a.k = "nan" -> S_NaN
       [] a.k = "huge" -> IF a.v < 0 THEN <<"-">> \o S_huge ELSE S_huge
       [] a.k = "inf" -> IF a.v < 0 THEN <<"-">> \o S_Infinity ELSE S_Infinity
       [] OTHER -> IF a.v < 0 THEN <<"-">> \o digits ELSE digits

----------------------------------------------------------------------------
(* JSON.stringify of a JSON value *)

\* QuoteJSONString: the characters of a string literal's body
RECURSIVE QuoteChars(_)
QuoteChars(cs) ==
  IF cs = <<>> THEN <<>>
  ELSE (CASE Head(cs) = "\"" -> <<"\\", "\"">>
          [] Head(cs) = "\\" -> <<"\\", "\\">>
          [] Head(cs) = "\n" -> <<"\\", "n">>
          [] Head(cs) = "\t" -> <<"\\", "t">>
          [] Head(cs) = "\r" -> <<"\\", "r">>
          [] OTHER -> <<Head(cs)>>) \o QuoteChars(Tail(cs))

Quote(cs) == <<"\"">> \o QuoteChars(cs) \o <<"\"">>

RECURSIVE JSON_stringify(_)
RECURSIVE StringifyElements(_, _)
RECURSIVE StringifyMembers(_, _)

\* the elements es[1..i], separated by commas
StringifyElements(es, i) ==
  IF i = 0 THEN <<>>
  ELSE IF i = 1 THEN JSON_stringify(es[1])
  ELSE StringifyElements(es, i - 1) \o <<",">> \o JSON_stringify(es[i])

\* the members ps[1..i], separated by commas
StringifyMembers(ps, i) ==
  LET member == Quote(ps[i][1]) \o <<":">> \o JSON_stringify(ps[i][2])
  IN IF i = 0 THEN <<>>
     ELSE IF i = 1 THEN member
     ELSE StringifyMembers(ps, i - 1) \o <<",">> \o member

\* SerializeJSONProperty without indentation; a number that is not finite
\* is serialized as null
JSON_stringify(a) ==
  CASE a.k = "null" -> S_null
    [] a.k = "bool" -> IF a.v THEN S_true ELSE S_false
    [] a.k \in {"num", "huge"} -> NumberToString(a)
    [] a.k \in {"inf", "nan"} -> S_null
    [] a.k = "str" -> Quote(a.v)
    [] a.k = "arr" -> <<"[">> \o StringifyElements(a.v, Len(a.v)) \o <<"]">>
    [] OTHER -> <<"{">> \o StringifyMembers(a.v, Len(a.v)) \o <<"}">>

----------------------------------------------------------------------------
(* JSON.parse of a text *)

JsonWhiteSpace == {" ", "\n", "\t", "\r"}

Failed == [ok |-> FALSE, val |-> Undefined, pos |-> 0]

Parsed(val, pos) == [ok |-> TRUE, val |-> val, pos |-> pos]

\* t[i], or the empty string past the end of the text
At(t, i) == IF i >= 1 /\ i <= Len(t) THEN t[i] ELSE ""

\* the first position from i on that holds no whitespace
RECURSIVE SkipWs(_, _)
SkipWs(t, i) == IF At(t, i) \in JsonWhiteSpace THEN SkipWs(t, i + 1) ELSE i

\* the first position from i on that holds no digit
RECURSIVE DigitsEnd(_, _)
DigitsEnd(t, i) == IF IsDigit(At(t, i)) THEN DigitsEnd(t, i + 1) ELSE i

\* whether the literal lit stands at position i
LiteralAt(t, i, lit) ==
  i + Len(lit) - 1 <= Len(t) /\ SubSeq(t, i, i + Len(lit) - 1) = lit

RECURSIVE Pow10(_)
Pow10(e) == IF e = 0 THEN 1 ELSE 10 * Pow10(e - 1)

\* mantissa m (in thousandths) times ten to the e: 1e308 is Huge and larger
\* exponents overflow to Infinity
Scale(m, e) ==
  IF m = 0 THEN Num(0)
  ELSE IF e > 308 THEN Inf(IF m < 0 THEN -1 ELSE 1)
  ELSE IF e = 308 THEN HugeOf(IF m < 0 THEN -1 ELSE 1)
  ELSE IF e >= 0 THEN Num(m * Pow10(e))
  ELSE Num(m \div Pow10(-e))

\* a JSON number at position i: -? (0 | [1-9][0-9]*) (. [0-9]+)? ([eE] [+-]? [0-9]+)?
ParseNumber(t, i) ==
  LET neg == At(t, i) = "-"
      i0 == IF neg THEN i + 1 ELSE i
      i1 == DigitsEnd(t, i0)
      intOk == i1 > i0 /\ (At(t, i0) = "0" => i1 = i0 + 1)
      hasFrac == At(t, i1) = "."
      f1 == IF hasFrac THEN DigitsEnd(t, i1 + 1) ELSE i1
      fracOk == hasFrac => f1 > i1 + 1
      hasExp == At(t, f1) \in {"e", "E"}
      e0 == IF At(t, f1 + 1) \in {"+", "-"} THEN f1 + 2 ELSE f1 + 1
      e1 == IF hasExp THEN DigitsEnd(t, e0) ELSE f1
      expOk == hasExp => e1 > e0
      mant == Unit * DigitsVal(SubSeq(t, i0, i1 - 1)) +
              (IF hasFrac THEN FracVal(SubSeq(t, i1 + 1, f1 - 1)) ELSE 0)
      ex == IF hasExp
            THEN (IF At(t, f1 + 1) = "-" THEN -1 ELSE 1) * DigitsVal(SubSeq(t, e0, e1 - 1))
            ELSE 0
  IN IF intOk /\ fracOk /\ expOk
     THEN Parsed(Scale(IF neg THEN -mant ELSE mant, ex), e1)
     ELSE Failed

\* the body of a string literal from position i on, up to the closing quote;
\* \u escapes and \b are outside the alphabet of the modelled texts
RECURSIVE ParseStringBody(_, _, _)
ParseStringBody(t, i, acc) ==
  LET c == At(t, i)
      e == At(t, i + 1)
  IN IF c = "" \/ c \in {"\n", "\t", "\r", "\f"} THEN Failed
     ELSE IF c = "\"" THEN Parsed(acc, i + 1)
     ELSE IF c = "\\"
       THEN (CASE e \in {"\"", "\\", "/"} -> ParseStringBody(t, i + 2, Append(acc, e))
               [] e = "n" -> ParseStringBody(t, i + 2, Append(acc, "\n"))
               [] e = "t" -> ParseStringBody(t, i + 2, Append(acc, "\t"))
               [] e = "r" -> ParseStringBody(t, i + 2, Append(acc, "\r"))
               [] e = "f" -> ParseStringBody(t, i + 2, Append(acc, "\f"))
               [] OTHER -> Failed)
     ELSE ParseStringBody(t, i + 1, Append(acc, c))

\* CreateDataProperty on the object under construction: a repeated key keeps
\* its place and takes the later value
RECURSIVE SetMember(_, _, _)
SetMember(ps, key, val) ==
  IF ps = <<>> THEN << <<key, val>> >>
  ELSE IF Head(ps)[1] = key THEN << <<key, val>> >> \o Tail(ps)
  ELSE <<Head(ps)>> \o SetMember(Tail(ps), key, val)

RECURSIVE ParseValue(_, _)
RECURSIVE ParseElements(_, _, _)
RECURSIVE ParseMembers(_, _, _)

\* the elements of an array after "[" or ",": value, then "," or "]"
ParseElements(t, i, acc) ==
  LET r == ParseValue(t, i)
      j == SkipWs(t, r.pos)
  IN IF ~r.ok THEN Failed
     ELSE IF At(t, j) = "," THEN ParseElements(t, j + 1, Append(acc, r.val))
     ELSE IF At(t, j) = "]" THEN Parsed(Arr(Append(acc, r.val)), j + 1)
     ELSE Failed

\* the members of an object after "{" or ",": string, ":", value, then "," or "}"
ParseMembers(t, i, acc) ==
  LET k0 == SkipWs(t, i)
      key == IF At(t, k0) = "\"" THEN ParseStringBody(t, k0 + 1, <<>>) ELSE Failed
      c == SkipWs(t, key.pos)
      r == IF key.ok /\ At(t, c) = ":" THEN ParseValue(t, c + 1) ELSE Failed
      j == SkipWs(t, r.pos)
  IN IF ~r.ok THEN Failed
     ELSE IF At(t, j) = "," THEN ParseMembers(t, j + 1, SetMember(acc, key.val, r.val))
     ELSE IF At(t, j) = "}" THEN Parsed(Obj(SetMember(acc, key.val, r.val)), j + 1)
     ELSE Failed

\* a JSON value from position i on, after any whitespace
ParseValue(t, i) ==
  LET j == SkipWs(t, i)
      c == At(t, j)
      s == ParseStringBody(t, j + 1, <<>>)
  IN CASE c = "{" -> IF At(t, SkipWs(t, j + 1)) = "}"
                     THEN Parsed(Obj(<<>>), SkipWs(t, j + 1) + 1)
                     ELSE ParseMembers(t, j + 1, <<>>)
       [] c = "[" -> IF At(t, SkipWs(t, j + 1)) = "]"
                     THEN Parsed(Arr(<<>>), SkipWs(t, j + 1) + 1)
                     ELSE ParseElements(t, j + 1, <<>>)
       [] c = "\"" -> IF s.ok THEN Parsed(Str(s.val), s.pos) ELSE Failed
       [] c = "-" \/ IsDigit(c) -> ParseNumber(t, j)
       [] LiteralAt(t, j, S_null) -> Parsed(Null, j + 4)
       [] LiteralAt(t, j, S_true) -> Parsed(Bool(TRUE), j + 4)
       [] LiteralAt(t, j, S_false) -> Parsed(Bool(FALSE), j + 5)
       [] OTHER -> Failed

\* JSON.parse(text): one value and nothing but whitespace around it; a
\* SyntaxError otherwise
JSON_parse(t) ==
  LET r == ParseValue(t, 1)
  IN IF r.ok /\ SkipWs(t, r.pos) = Len(t) + 1 THEN r ELSE Failed

----------------------------------------------------------------------------
(* extractJsonObject *)

\* text.match(/\{[\s\S]*\}/): from the first "{" to the last "}", or no match
MatchBraces(t) ==
  LET first == FirstIndex(t, "{")
      last == LastIndex(t, "}")
  IN IF first > 0 /\ last > first
     THEN [matched |-> TRUE, text |-> SubSeq(t, first, last)]
     ELSE [matched |-> FALSE, text |-> <<>>]

Threw(error) == [threw |-> TRUE, value |-> Undefined, error |-> error]

Gave(value) == [threw |-> FALSE, value |-> value, error |-> ""]

\* extractJsonObject with a match that stops at the first "}" (a non-greedy
\* pattern) and no strict parse before it
extractJsonObjectLazy(text) ==
  LET first == FirstIndex(text, "{")
      rest == IF first > 0 THEN SubSeq(text, first, Len(text)) ELSE <<>>
      close == FirstIndex(rest, "}")
      second == JSON_parse(SubSeq(rest, 1, close))
  IN IF close = 0 THEN Threw("Failed to parse model response as JSON")
     ELSE IF second.ok THEN Gave(second.val)
     ELSE Threw("SyntaxError")

\* extractJsonObject without the fallback: a text that does not parse as a
\* whole is given up
extractJsonObjectStrict(text) ==
  LET strict == JSON_parse(text)
  IN IF strict.ok THEN Gave(strict.val)
     ELSE Threw("Failed to parse model response as JSON")

\* try { return JSON.parse(text) } catch { match ...; return JSON.parse(match[0]) }
extractJsonObject(text) ==
  LET strict == JSON_parse(text)
      match == IF Len(text) > 0 THEN MatchBraces(text) ELSE [matched |-> FALSE, text |-> <<>>]
      second == JSON_parse(match.text)
  IN IF strict.ok THEN Gave(strict.val)
     ELSE IF ~match.matched THEN Threw("Failed to parse model response as JSON")
     ELSE IF second.ok THEN Gave(second.val)
     ELSE Threw("SyntaxError")

----------------------------------------------------------------------------
(* Conversions of the language that the service's arithmetic applies *)

\* OrdinaryToPrimitive raises a TypeError on a JSON-decoded object that has
\* an own property "toString" (a data property, which is not callable, hides
\* Object.prototype.toString, and valueOf yields the object itself); an
\* array is converted by Array.prototype.join, which converts its elements
RECURSIVE ToPrimitiveThrows(_)
ToPrimitiveThrows(a) ==
  CASE a.k = "obj" -> HasOwn(a, K_toString)
    [] a.k = "arr" -> \E i \in 1..Len(a.v) : ToPrimitiveThrows(a.v[i])
    [] OTHER -> FALSE

\* ToString, for values on which it does not raise
RECURSIVE ToStr(_)
RECURSIVE Join(_, _)
Join(es, i) ==
  LET e == es[i]
      piece == IF e.k \in {"undef", "null"} THEN <<>> ELSE ToStr(e)
  IN IF i = 0 THEN <<>>
     ELSE IF i = 1 THEN piece
     ELSE Join(es, i - 1) \o <<",">> \o piece

ToStr(a) ==
  CASE a.k = "undef" -> <<"u", "n", "d", "e", "f", "i", "n", "e", "d">>
    [] a.k = "null" -> S_null
    [] a.k = "bool" -> IF a.v THEN S_true ELSE S_false
    [] a.k = "str" -> a.v
    [] a.k = "arr" -> Join(a.v, Len(a.v))
    [] a.k = "obj" -> S_object
    [] OTHER -> NumberToString(a)

\* ToNumber, for values on which it does not raise
ToNumber(a) ==
  CASE a.k = "undef" -> NaN
    [] a.k = "null" -> Num(0)
    [] a.k = "bool" -> IF a.v THEN Num(Unit) ELSE Num(0)
    [] a.k = "str" -> StringToNumber(a.v)
    [] a.k \in {"arr", "obj"} -> StringToNumber(ToStr(a))
    [] OTHER -> a

\* Math.round of a number: to the nearest integer, halves towards +Infinity
MathRound(a) ==
  IF a.k = "num" THEN Num(Unit * ((a.v + (Unit \div 2)) \div Unit)) ELSE a

\* a * c, for a number a and an integer c > 1 (1e308 * c overflows)
Times(a, c) ==
  CASE a.k = "num" -> Num(a.v * c)
    [] a.k = "huge" -> Inf(a.v)
    [] OTHER -> a

\* a / c, for a number a and an integer c > 1
DividedBy(a, c) ==
  IF a.k = "num" THEN Num(a.v \div c) ELSE a

\* Math.max(0, a) of a number
MathMax0(a) ==
  CASE a.k = "nan" -> NaN
    [] a.k = "num" -> IF a.v < 0 THEN Num(0) ELSE a
    [] OTHER -> IF a.v < 0 THEN Num(0) ELSE a

\* a + b of two numbers that are not negative (the reducer's accumulation)
Plus(a, b) ==
  CASE a.k = "nan" \/ b.k = "nan" -> NaN
    [] a.k = "inf" \/ b.k = "inf" -> Inf(1)
    [] a.k = "huge" /\ b.k = "huge" -> Inf(1)
    [] a.k = "huge" \/ b.k = "huge" -> Huge
    [] OTHER -> Num(a.v + b.v)

----------------------------------------------------------------------------
(* validateAndNormalizeNutritionData *)

NutritionKeys == {K_calories, K_protein_g, K_carbs_g, K_fat_g}

\* const roundToTwo = (num) => Math.round((num || 0) * 100) / 100
roundToTwo(num) ==
  DividedBy(MathRound(Times(ToNumber(Or(num, Num(0))), 100)), 100)

\* const formatNutritionWithUnits = (nutrition) => ({ ... })
formatNutritionWithUnits(nutrition) ==
  [calories |-> [value |-> MathMax0(MathRound(ToNumber(Or(Get(nutrition, K_calories), Num(0))))),
                 unit |-> "kcal"],
   protein |-> [value |-> MathMax0(roundToTwo(Or(Get(nutrition, K_protein_g), Num(0)))),
                unit |-> "g"],
   carbs |-> [value |-> MathMax0(roundToTwo(Or(Get(nutrition, K_carbs_g), Num(0)))),
              unit |-> "g"],
   fat |-> [value |-> MathMax0(roundToTwo(Or(Get(nutrition, K_fat_g), Num(0)))),
            unit |-> "g"]]

\* formatNutritionWithUnits raises when one of its conversions to a number does
formatRaises(nutrition) ==
  \E key \in NutritionKeys : ToPrimitiveThrows(Or(Get(nutrition, key), Num(0)))

\* dish => dish && typeof dish.name === 'string' && dish.name.trim().length > 0
dishFilter(dish) ==
  /\ Truthy(dish)
  /\ Get(dish, K_name).k = "str"
  /\ Len(Trim(Get(dish, K_name).v)) > 0

\* dish.nutrition || {}
dishNutrition(dish) == Or(Get(dish, K_nutrition), Obj(<<>>))

\* dishMap with the name taken as it came, untrimmed
dishMapUntrimmed(dish) ==
  [name |-> Get(dish, K_name).v,
   nutrition |-> formatNutritionWithUnits(dishNutrition(dish))]

\* dish => ({ name: dish.name.trim(), nutrition: formatNutritionWithUnits(...) })
dishMap(dish) ==
  [name |-> Trim(Get(dish, K_name).v),
   nutrition |-> formatNutritionWithUnits(dishNutrition(dish))]

\* the entries of data.dishes that pass the filter, in order
keptDishes(data_) ==
  LET ds == Get(data_, K_dishes)
  IN IF ds.k = "arr" /\ Len(ds.v) > 0 THEN SelectSeq(ds.v, dishFilter) ELSE <<>>

\* the argument of formatNutritionWithUnits for the fallback dish
fallbackNutrition(data_) ==
  LET pick(key) == Or(Or(Get(data_, key), Get(Get(data_, K_total), key)), Num(0))
  IN Obj(<< <<K_calories, pick(K_calories)>>,
            <<K_protein_g, pick(K_protein_g)>>,
            <<K_carbs_g, pick(K_carbs_g)>>,
            <<K_fat_g, pick(K_fat_g)>> >>)

FallbackName ==
  <<"U", "n", "i", "d", "e", "n", "t", "i", "f", "i", "e", "d", " ",
    "f", "o", "o", "d", " ", "i", "t", "e", "m", "s">>

\* let dishes = ...; if (dishes.length === 0) dishes = [fallback]
normalizedDishes(data_) ==
  LET kept == keptDishes(data_)
  IN IF Len(kept) = 0
     THEN << [name |-> FallbackName,
              nutrition |-> formatNutritionWithUnits(fallbackNutrition(data_))] >>
     ELSE [i \in 1..Len(kept) |-> dishMap(kept[i])]

\* data?.total && typeof data.total === 'object'
totalProvided(data_) ==
  Truthy(Get(data_, K_total)) /\ Get(data_, K_total).k \in {"obj", "arr"}

\* dishes.reduce((acc, dish) => ({ ... }), { calories: 0, ... })
RECURSIVE reduceField(_, _, _)
reduceField(dishes, field, i) ==
  IF i = 0 THEN Num(0)
  ELSE Plus(reduceField(dishes, field, i - 1), dishes[i].nutrition[field].value)

calculatedTotal(dishes) ==
  Obj(<< <<K_calories, reduceField(dishes, "calories", Len(dishes))>>,
         <<K_protein_g, reduceField(dishes, "protein", Len(dishes))>>,
         <<K_carbs_g, reduceField(dishes, "carbs", Len(dishes))>>,
         <<K_fat_g, reduceField(dishes, "fat", Len(dishes))>> >>)

resolvedTotal(data_, dishes) ==
  IF totalProvided(data_)
  THEN formatNutritionWithUnits(Get(data_, K_total))
  ELSE formatNutritionWithUnits(calculatedTotal(dishes))

\* legacyData with the numbers recomputed from the dishes instead of the total
legacyDataFromDishes(dishes, total) ==
  LET sums == formatNutritionWithUnits(calculatedTotal(dishes))
  IN [detected_food_items |-> [i \in 1..Len(dishes) |-> dishes[i].name],
      calories |-> sums.calories.value,
      protein_g |-> sums.protein.value,
      carbs_g |-> sums.carbs.value,
      fat_g |-> sums.fat.value]

\* const legacyData = { detected_food_items: dishes.map(dish => dish.name), ... }
legacyData(dishes, total) ==
  [detected_food_items |-> [i \in 1..Len(dishes) |-> dishes[i].name],
   calories |-> total.calories.value,
   protein_g |-> total.protein.value,
   carbs_g |-> total.carbs.value,
   fat_g |-> total.fat.value]

\* the call raises exactly when one of the formatNutritionWithUnits calls it
\* makes raises
normalizeRaises(data_) ==
  LET kept == keptDishes(data_)
  IN \/ \E i \in 1..Len(kept) : formatRaises(dishNutrition(kept[i]))
     \/ Len(kept) = 0 /\ formatRaises(fallbackNutrition(data_))
     \/ totalProvided(data_) /\ formatRaises(Get(data_, K_total))

Raised == [threw |-> TRUE, value |-> <<>>]

Returned(value) == [threw |-> FALSE, value |-> value]

validateAndNormalizeNutritionData(data_) ==
  LET dishes == normalizedDishes(data_)
      total == resolvedTotal(data_, dishes)
      legacy == legacyData(dishes, total)
  IN IF normalizeRaises(data_) THEN Raised
     ELSE Returned([dishes |-> dishes,
                    total |-> total,
                    detected_food_items |-> legacy.detected_food_items,
                    calories |-> legacy.calories,
                    protein_g |-> legacy.protein_g,
                    carbs_g |-> legacy.carbs_g,
                    fat_g |-> legacy.fat_g])

----------------------------------------------------------------------------
(* The inputs of the normalizer: values JSON.parse can return *)

\* the longest dishes array of the inputs
MaxDishes == 3

\* an object of the given <<key, value>> pairs; a pair whose value is
\* Undefined stands for an absent key
MkObj(pairs) == Obj(SelectSeq(pairs, LAMBDA p : p[2] # Undefined))

\* raw values of one nutrition field
RawLeaves ==
  { Undefined, Null, Bool(TRUE), Bool(FALSE),
    Num(0), Num(4), Num(300), Num(1005), Num(2500), Num(12345), Num(95000),
    Num(-1500), Huge, HugeOf(-1), Inf(1), Inf(-1),
    Str(<<>>), Str(<<" ">>), Str(<<"7">>), Str(<<" ", "2", ".", "5">>),
    Str(<<"a", "b", "c">>),
    Arr(<<>>), Arr(<<Num(7000)>>), Arr(<<Num(1000), Num(2000)>>),
    Arr(<<Obj(<< <<K_toString, Num(0)>> >>)>>),
    Obj(<<>>), Obj(<< <<K_toString, Num(0)>> >>) }

Nutrition(c, p, cb, f) ==
  MkObj(<< <<K_calories, c>>, <<K_protein_g, p>>, <<K_carbs_g, cb>>, <<K_fat_g, f>> >>)

Dish(name, nutrition) == MkObj(<< <<K_name, name>>, <<K_nutrition, nutrition>> >>)

Data(dishes, total, calories, protein_g) ==
  MkObj(<< <<K_dishes, dishes>>, <<K_total, total>>,
           <<K_calories, calories>>, <<K_protein_g, protein_g>> >>)

\* one dish named "a" whose four nutrition fields take every raw value
LeafInputs ==
  { Data(Arr(<<Dish(Str(<<"a">>), Nutrition(c, p, p, c))>>), Undefined, Undefined, Undefined) :
      c \in RawLeaves, p \in RawLeaves }

\* entries of a dishes array: valid and invalid names, nutrition of every shape
Entries ==
  { Null, Num(0), Str(<<"a">>), Arr(<<>>),
    Dish(Undefined, Nutrition(Num(100000), Num(1000), Num(2000), Num(3000))),
    Dish(Num(5000), Undefined),
    Dish(Str(<<>>), Undefined),
    Dish(Str(<<" ", " ">>), Nutrition(Num(50000), Undefined, Undefined, Undefined)),
    Dish(Str(<<" ", "a", " ">>), Nutrition(Num(95000), Num(500), Num(25000), Num(300))),
    Dish(Str(<<"b">>), Nutrition(Num(200400), Num(4125), Num(44126), Num(-1000))),
    Dish(Str(<<"b", " ", "c">>), Nutrition(Str(<<"a", "b", "c">>), Inf(1), Huge, Num(100))),
    Dish(Str(<<"c">>), Undefined),
    Dish(Str(<<"d">>), Num(5000)) }

\* data.dishes: absent, not an array, or an array of at most MaxDishes entries
DishesValues ==
  { Undefined, Null, Num(3000), Str(<<"a">>), Obj(<<>>) } \cup
  { Arr(es) : es \in UNION { [1..n -> Entries] : n \in 0..MaxDishes } }

\* data.total: absent, a primitive, an array, or an object
TotalValues ==
  { Undefined, Null, Num(5000), Str(<<"a">>), Arr(<<>>), Obj(<<>>),
    Nutrition(Num(500000), Num(20500), Num(60000), Num(10000)),
    Nutrition(Str(<<"a", "b", "c">>), Num(-2000), Undefined, Num(0)) }

\* the <<calories, protein_g>> pairs of top-level legacy fields
LegacyValues ==
  { <<Undefined, Undefined>>, <<Num(0), Num(7000)>>, <<Num(250000), Undefined>>,
    <<Str(<<"7">>), Obj(<< <<K_toString, Num(0)>> >>)>> }

\* every dishes value under a few totals, and a few dishes values under every
\* total and every pair of top-level legacy fields
StructureInputs ==
  { Data(ds, t, Undefined, Undefined) :
      ds \in DishesValues,
      t \in { Undefined, Arr(<<>>),
              Nutrition(Num(500000), Num(20500), Num(60000), Num(10000)) } } \cup
  { Data(ds, t, lg[1], lg[2]) :
      ds \in { Undefined, Arr(<<>>), Arr(<<Dish(Num(5000), Undefined)>>),
               Arr(<<Dish(Str(<<"c">>), Undefined)>>),
               Arr(<<Dish(Str(<<"b">>),
                          Nutrition(Num(200400), Num(4125), Num(44126), Num(-1000)))>>) },
      t \in TotalValues, lg \in LegacyValues }

\* data itself is not an object
PrimitiveInputs == { Null, Num(5000), Str(<<"a">>), Bool(TRUE), Arr(<<>>), Arr(<<Num(1000)>>) }

Inputs == LeafInputs \cup StructureInputs \cup PrimitiveInputs

----------------------------------------------------------------------------
(* The normalizer as a state machine: a parsed value arrives, the call runs *)

None == <<>>

\* the variables of the other state machines, which a state machine leaves
\* unset
ProseUnset == before = None /\ after = None

ServiceUnset ==
  /\ apiKey = None /\ op = None /\ imageData = None /\ calls = None
  /\ thrown = None /\ wraps = None /\ outcome = None

RouteUnset == req = None /\ res = None

LaterUnset == tasks = None /\ entries = None /\ now = None /\ nodeEnv = None

Init ==
  /\ pc = "parsed"
  /\ data \in Inputs
  /\ result = None
  /\ x = None
  /\ raw = None
  /\ extracted = None
  /\ ProseUnset /\ ServiceUnset /\ RouteUnset
  /\ LaterUnset

Normalize ==
  /\ pc = "parsed"
  /\ result' = validateAndNormalizeNutritionData(data)
  /\ pc' = "normalized"
  /\ UNCHANGED <<data, x, raw, extracted, proseVars,
                 concurrentVars, storeVars, envVars,
                 serviceVars, routeVars>>

Next == Normalize

Spec == Init /\ [][Next]_vars

\* The same call on the inputs whose nutrition fields, where present, are all
\* finite numbers, as the prompt asks of the model: no field needs coercion
NumericNutrition(n) ==
  \A key \in NutritionKeys : Get(n, key).k \in {"undef", "num"}

NumericInputs ==
  { Data(Arr(es), t, Undefined, Undefined) :
      es \in UNION { [1..n -> { e \in Entries : NumericNutrition(Get(e, K_nutrition)) }]
                       : n \in 0..MaxDishes },
      t \in { t \in TotalValues : NumericNutrition(t) } }

InitNumeric ==
  /\ pc = "parsed"
  /\ data \in NumericInputs
  /\ result = None
  /\ x = None
  /\ raw = None
  /\ extracted = None
  /\ ProseUnset /\ ServiceUnset /\ RouteUnset
  /\ LaterUnset

SpecNumeric == InitNumeric /\ [][Next]_vars

----------------------------------------------------------------------------
(* The round trip of the extractor: a JSON object is serialized, the text is
   handed to extractJsonObject *)

\* the most members of the objects that are serialized
MaxMembers == 2

JsonLeaves ==
  { Null, Bool(TRUE), Bool(FALSE), Num(0), Num(5), Num(95000), Num(-12340),
    Huge, HugeOf(-1), Str(<<>>), Str(<<"a">>), Str(<<"}">>), Str(<<"{", "\"">>), Str(<<"\\", "\n">>),
    Str(<<" ", "1", ",">>) }

JsonKeys == { <<"a">>, <<"b">>, <<>>, <<"}", "\"">>, K_toString }

\* values of one member: leaves, arrays and objects of leaves, and nestings
JsonMemberValues ==
  JsonLeaves \cup
  { Arr(<<>>), Obj(<<>>), Arr(<<Obj(<<>>), Arr(<<>>)>>),
    Arr(<<Obj(<< <<K_name, Str(<<"}">>)>> >>)>>),
    Obj(<< <<K_nutrition, Obj(<< <<K_calories, Num(200500)>> >>)>> >>) } \cup
  { Arr(<<a, b>>) : a, b \in { Null, Num(2500), Str(<<"]">>) } } \cup
  { Obj(<< <<key, a>> >>) : key \in { <<"a">>, <<"{">> }, a \in { Num(7000), Str(<<"\"">>) } }

DistinctKeys(ps) == \A i, j \in 1..Len(ps) : ps[i][1] = ps[j][1] => i = j

\* objects of one member with every key and value, and objects of up to
\* MaxMembers members with distinct keys
JsonObjects ==
  { Obj(<< <<key, a>> >>) : key \in JsonKeys, a \in JsonMemberValues } \cup
  { Obj(ps) : ps \in { qs \in UNION { [1..n -> ({ <<"a">>, <<"b">>, <<"c">>, <<"}">> }
                                               \X { Num(1500), Str(<<"{">>), Arr(<<>>) })]
                                       : n \in 0..MaxMembers } : DistinctKeys(qs) } }

InitExtract ==
  /\ pc = "value"
  /\ x \in JsonObjects
  /\ raw = None
  /\ extracted = None
  /\ data = None
  /\ result = None
  /\ ProseUnset /\ ServiceUnset /\ RouteUnset
  /\ LaterUnset

\* raw = JSON.stringify(x)
Stringify ==
  /\ pc = "value"
  /\ raw' = JSON_stringify(x)
  /\ pc' = "text"
  /\ UNCHANGED <<x, extracted, data, result, proseVars,
                 concurrentVars, storeVars, envVars,
                 serviceVars, routeVars>>

\* extracted = extractJsonObject(raw), or the error it raises
Extract ==
  /\ pc = "text"
  /\ extracted' = extractJsonObject(raw)
  /\ pc' = "extracted"
  /\ UNCHANGED <<x, raw, data, result, proseVars,
                 concurrentVars, storeVars, envVars,
                 serviceVars, routeVars>>

NextExtract == Stringify \/ Extract

SpecExtract == InitExtract /\ [][NextExtract]_vars

----------------------------------------------------------------------------
(* The extractor on an object inside prose: the model's answer is some text,
   the serialization of an object, and some more text *)

\* the objects that are embedded: the empty object and every object of one
\* member
ProseObjects ==
  { Obj(<<>>) } \cup { Obj(<< <<key, a>> >>) : key \in JsonKeys, a \in JsonMemberValues }

\* text before the object: none, a sentence, a markdown emphasis, whitespace, text
\* with braces of its own, and text that makes the whole a JSON text
ProseBefore ==
  { <<>>, <<"H", "e", "r", "e", ":", " ">>, <<"*", "*", "*", "j", "s", "o", "n", "\n">>,
    <<" ", "\n">>, <<"s", "e", "e", " ", "{", "x", "}", " ">>, <<"}", " ">>,
    <<"[">>, <<"\"">> }

\* text after the object
ProseAfter ==
  { <<>>, <<" ", "o", "k", ".">>, <<"\n", "*", "*", "*">>, <<"\n">>,
    <<" ", "{", "y", "}">>, <<" ", "{">>, <<"]">>, <<"\"">> }

InitProse ==
  /\ pc = "value"
  /\ x \in ProseObjects
  /\ before \in ProseBefore
  /\ after \in ProseAfter
  /\ raw = None
  /\ extracted = None
  /\ data = None
  /\ result = None
  /\ ServiceUnset /\ RouteUnset
  /\ LaterUnset

\* raw = before + JSON.stringify(x) + after
Embed ==
  /\ pc = "value"
  /\ raw' = before \o JSON_stringify(x) \o after
  /\ pc' = "text"
  /\ UNCHANGED <<x, extracted, data, result, proseVars,
                 concurrentVars, storeVars, envVars,
                 serviceVars, routeVars>>

NextProse == Embed \/ Extract

SpecProse == InitProse /\ [][NextProse]_vars

----------------------------------------------------------------------------
(* The extractor on any text *)

\* texts that are no JSON, JSON texts that are no object, and texts that hold
\* or are an object
Words ==
  { <<>>, <<" ">>, <<"a", "p", "p", "l", "e">>, <<"5">>, <<"-", "1", ".", "5">>,
    <<"n", "u", "l", "l">>, <<"t", "r", "u", "e">>, <<"\"", "a", "\"">>,
    <<"\"", "{", "}", "\"">>, <<"[", "]">>, <<"[", "1", "]">>,
    <<"[", "{", "}", "]">>, <<"{", "}">>, <<"{">>, <<"}">>, <<"}", "{">>,
    <<"{", "a", "}">>, <<"{", "\"", "a", "\"", ":", "1", "}">>,
    <<"{", "\"", "a", "\"", ":", "1", ",", "}">>, <<"1", "e", "9", "9", "9">> }

RawTexts == { u \o v : u, v \in Words }

InitText ==
  /\ pc = "text"
  /\ raw \in RawTexts
  /\ x = None
  /\ extracted = None
  /\ data = None
  /\ result = None
  /\ ProseUnset /\ ServiceUnset /\ RouteUnset
  /\ LaterUnset

NextText == Extract

SpecText == InitText /\ [][NextText]_vars

----------------------------------------------------------------------------
(* Errors and wrapGeminiError *)

K_status == <<"s", "t", "a", "t", "u", "s">>
K_statusCode == <<"s", "t", "a", "t", "u", "s", "C", "o", "d", "e">>
S_Error == <<"E", "r", "r", "o", "r">>
S_SyntaxError == <<"S", "y", "n", "t", "a", "x", "E", "r", "r", "o", "r">>
S_TypeError == <<"T", "y", "p", "e", "E", "r", "r", "o", "r">>
S_ValidationError ==
  <<"V", "a", "l", "i", "d", "a", "t", "i", "o", "n", "E", "r", "r", "o",
    "r">>
S_missing_api_key ==
  <<"m", "i", "s", "s", "i", "n", "g", "_", "a", "p", "i", "_", "k", "e",
    "y">>
S_invalid_api_key ==
  <<"i", "n", "v", "a", "l", "i", "d", "_", "a", "p", "i", "_", "k", "e",
    "y">>
S_insufficient_quota ==
  <<"i", "n", "s", "u", "f", "f", "i", "c", "i", "e", "n", "t", "_", "q",
    "u", "o", "t", "a">>
S_invalid_image ==
  <<"i", "n", "v", "a", "l", "i", "d", "_", "i", "m", "a", "g", "e">>
S_api_key == <<"a", "p", "i", " ", "k", "e", "y">>
S_permission == <<"p", "e", "r", "m", "i", "s", "s", "i", "o", "n">>
S_unauthorized ==
  <<"u", "n", "a", "u", "t", "h", "o", "r", "i", "z", "e", "d">>
S_quota == <<"q", "u", "o", "t", "a">>
S_resource_exhausted ==
  <<"r", "e", "s", "o", "u", "r", "c", "e", "_", "e", "x", "h", "a", "u",
    "s", "t", "e", "d">>
S_rate_limit == <<"r", "a", "t", "e", " ", "l", "i", "m", "i", "t">>
M_text_context ==
  <<"F", "a", "i", "l", "e", "d", " ", "t", "o", " ", "a", "n", "a", "l",
    "y", "z", "e", " ", "m", "e", "a", "l", " ", "t", "e", "x", "t">>
M_image_context ==
  <<"F", "a", "i", "l", "e", "d", " ", "t", "o", " ", "a", "n", "a", "l",
    "y", "z", "e", " ", "m", "e", "a", "l", " ", "i", "m", "a", "g", "e">>
M_key_not_configured ==
  <<"G", "e", "m", "i", "n", "i", " ", "A", "P", "I", " ", "k", "e", "y",
    " ", "n", "o", "t", " ", "c", "o", "n", "f", "i", "g", "u", "r", "e",
    "d", ":", " ", "s", "e", "t", " ", "G", "E", "M", "I", "N", "I", "_",
    "A", "P", "I", "_", "K", "E", "Y", " ", "i", "n", " ", "y", "o", "u",
    "r", " ", ".", "e", "n", "v">>
M_invalid_image ==
  <<"I", "n", "v", "a", "l", "i", "d", " ", "i", "m", "a", "g", "e", " ",
    "d", "a", "t", "a", " ", "f", "o", "r", "m", "a", "t">>
M_failed_to_parse ==
  <<"F", "a", "i", "l", "e", "d", " ", "t", "o", " ", "p", "a", "r", "s",
    "e", " ", "m", "o", "d", "e", "l", " ", "r", "e", "s", "p", "o", "n",
    "s", "e", " ", "a", "s", " ", "J", "S", "O", "N">>

UpperChars ==
  <<"A", "B", "C", "D", "E", "F", "G", "H", "I", "J", "K", "L", "M", "N", "O", "P", "Q", "R", "S", "T", "U", "V", "W", "X", "Y", "Z">>

LowerChars ==
  <<"a", "b", "c", "d", "e", "f", "g", "h", "i", "j", "k", "l", "m", "n", "o", "p", "q", "r", "s", "t", "u", "v", "w", "x", "y", "z">>

\* String.prototype.toLowerCase, on the letters of the alphabet above
ToLowerCase(cs) ==
  [i \in 1..Len(cs) |->
     IF \E j \in 1..Len(UpperChars) : UpperChars[j] = cs[i]
     THEN LowerChars[CHOOSE j \in 1..Len(UpperChars) : UpperChars[j] = cs[i]]
     ELSE cs[i]]

\* String.prototype.includes
Includes(cs, sub) ==
  \E i \in 0..(Len(cs) - Len(sub)) : SubSeq(cs, i + 1, i + Len(sub)) = sub

\* the number n as a JavaScript value
Whole(n) == Num(n * Unit)

\* an Error object: its name, its message (a string), and the own properties
\* status, code and response that the thrower set (undefined when not set);
\* cause is the error it wraps, or None
Err(name, message, status, code, response) ==
  [name |-> name, message |-> message, status |-> status, code |-> code,
   response |-> response, cause |-> None]

\* String(error): Error.prototype.toString
ErrorToString(error) ==
  IF error.message = <<>> THEN error.name
  ELSE IF error.name = <<>> THEN error.message
  ELSE error.name \o <<":", " ">> \o error.message

\* error?.status || error?.response?.status || error?.response?.statusCode
\* || undefined
upstreamStatus(error) ==
  Or(Or(Or(error.status, Get(error.response, K_status)),
        Get(error.response, K_statusCode)),
     Undefined)

\* `${prefixMessage}: ${error?.message || String(error)}`
wrappedMessage(error, prefixMessage) ==
  prefixMessage \o <<":", " ">> \o
    (IF error.message # <<>> THEN error.message ELSE ErrorToString(error))

\* the wrapped error: a new Error with cause, status and code set
Wrapped(error, prefixMessage, status, code) ==
  [name |-> S_Error, message |-> wrappedMessage(error, prefixMessage),
   status |-> status, code |-> code, response |-> Undefined, cause |-> error]

\* wrapGeminiError that tests the message as it is, without toLowerCase
wrapGeminiErrorCaseSensitive(error, prefixMessage) ==
  LET status == upstreamStatus(error)
      msg == error.message
  IN IF \/ status = Whole(401) \/ status = Whole(403)
        \/ Includes(msg, S_api_key) \/ Includes(msg, S_permission)
        \/ Includes(msg, S_unauthorized)
     THEN Wrapped(error, prefixMessage, Whole(401), Str(S_invalid_api_key))
     ELSE IF \/ status = Whole(429)
             \/ Includes(msg, S_quota) \/ Includes(msg, S_resource_exhausted)
             \/ Includes(msg, S_rate_limit)
     THEN Wrapped(error, prefixMessage, Whole(429), Str(S_insufficient_quota))
     ELSE Wrapped(error, prefixMessage, status, error.code)

\* wrapGeminiError that takes only 401 for an authorization failure
wrapGeminiErrorWithout403(error, prefixMessage) ==
  LET status == upstreamStatus(error)
      msg == ToLowerCase(error.message)
  IN IF \/ status = Whole(401)
        \/ Includes(msg, S_api_key) \/ Includes(msg, S_permission)
        \/ Includes(msg, S_unauthorized)
     THEN Wrapped(error, prefixMessage, Whole(401), Str(S_invalid_api_key))
     ELSE IF \/ status = Whole(429)
             \/ Includes(msg, S_quota) \/ Includes(msg, S_resource_exhausted)
             \/ Includes(msg, S_rate_limit)
     THEN Wrapped(error, prefixMessage, Whole(429), Str(S_insufficient_quota))
     ELSE Wrapped(error, prefixMessage, status, error.code)

\* wrapGeminiError with the two tests in the other order: rate limit first
wrapGeminiErrorRateLimitFirst(error, prefixMessage) ==
  LET status == upstreamStatus(error)
      msg == ToLowerCase(error.message)
  IN IF \/ status = Whole(429)
        \/ Includes(msg, S_quota) \/ Includes(msg, S_resource_exhausted)
        \/ Includes(msg, S_rate_limit)
     THEN Wrapped(error, prefixMessage, Whole(429), Str(S_insufficient_quota))
     ELSE IF \/ status = Whole(401) \/ status = Whole(403)
             \/ Includes(msg, S_api_key) \/ Includes(msg, S_permission)
             \/ Includes(msg, S_unauthorized)
     THEN Wrapped(error, prefixMessage, Whole(401), Str(S_invalid_api_key))
     ELSE Wrapped(error, prefixMessage, status, error.code)

wrapGeminiError(error, prefixMessage) ==
  LET status == upstreamStatus(error)
      msg == ToLowerCase(error.message)
  IN IF \/ status = Whole(401) \/ status = Whole(403)
        \/ Includes(msg, S_api_key) \/ Includes(msg, S_permission)
        \/ Includes(msg, S_unauthorized)
     THEN Wrapped(error, prefixMessage, Whole(401), Str(S_invalid_api_key))
     ELSE IF \/ status = Whole(429)
             \/ Includes(msg, S_quota) \/ Includes(msg, S_resource_exhausted)
             \/ Includes(msg, S_rate_limit)
     THEN Wrapped(error, prefixMessage, Whole(429), Str(S_insufficient_quota))
     ELSE Wrapped(error, prefixMessage, status, error.code)

M_quota_exceeded ==
  <<"q", "u", "o", "t", "a", " ", "e", "x", "c", "e", "e", "d", "e", "d">>
M_Quota_upper ==
  <<"Y", "o", "u", " ", "e", "x", "c", "e", "e", "d", "e", "d", " ", "y",
    "o", "u", "r", " ", "c", "u", "r", "r", "e", "n", "t", " ", "Q", "u",
    "o", "t", "a">>
M_RESOURCE_EXHAUSTED ==
  <<"[", "4", "2", "9", "]", " ", "R", "E", "S", "O", "U", "R", "C", "E",
    "_", "E", "X", "H", "A", "U", "S", "T", "E", "D">>
M_Rate_Limit ==
  <<"R", "a", "t", "e", " ", "L", "i", "m", "i", "t", " ", "r", "e", "a",
    "c", "h", "e", "d">>
M_API_key_invalid ==
  <<"A", "P", "I", " ", "k", "e", "y", " ", "n", "o", "t", " ", "v", "a",
    "l", "i", "d">>
M_Permission_denied ==
  <<"P", "e", "r", "m", "i", "s", "s", "i", "o", "n", " ", "d", "e", "n",
    "i", "e", "d">>
M_UNAUTHORIZED ==
  <<"U", "N", "A", "U", "T", "H", "O", "R", "I", "Z", "E", "D">>
M_fetch_failed ==
  <<"f", "e", "t", "c", "h", " ", "f", "a", "i", "l", "e", "d">>
M_key_and_quota ==
  <<"a", "p", "i", " ", "k", "e", "y", " ", "o", "v", "e", "r", " ", "q",
    "u", "o", "t", "a">>
S_ECONNRESET == <<"E", "C", "O", "N", "N", "R", "E", "S", "E", "T">>

\* the messages of the errors the model call rejects with
UpstreamMessages ==
  { <<>>, M_quota_exceeded, M_Quota_upper, M_RESOURCE_EXHAUSTED, M_Rate_Limit,
    M_API_key_invalid, M_Permission_denied, M_UNAUTHORIZED, M_fetch_failed,
    M_key_and_quota }

\* the HTTP statuses an upstream error carries
UpstreamStatuses == { 400, 401, 403, 429, 500 }

\* error.status: not set, 0, or an HTTP status
StatusValues == { Undefined, Whole(0) } \cup { Whole(s) : s \in UpstreamStatuses }

\* error.response: not set, null, or an object with status, statusCode or both
ResponseValues ==
  { Undefined, Null, Obj(<<>>) } \cup
  { Obj(<< <<K_status, Whole(s)>> >>) : s \in UpstreamStatuses } \cup
  { Obj(<< <<K_statusCode, Whole(s)>> >>) : s \in UpstreamStatuses } \cup
  { Obj(<< <<K_status, Whole(0)>>, <<K_statusCode, Whole(s)>> >>) : s \in {401, 429} } \cup
  { Obj(<< <<K_status, Whole(500)>>, <<K_statusCode, Whole(s)>> >>) : s \in {403, 429} }

\* error.code: not set, or a code of the platform
CodeValues == { Undefined, Str(S_ECONNRESET) }

\* the errors of the model call
UpstreamErrors ==
  { Err(S_Error, m, s, c, r) :
      m \in UpstreamMessages, s \in StatusValues, c \in CodeValues, r \in ResponseValues }

\* the operations of the service, and the context string each passes
Operations == { "analyzeMealText", "analyzeMealImage" }

Context(o) == IF o = "analyzeMealText" THEN M_text_context ELSE M_image_context

\* how a call of the service settles: its promise is rejected with an error
\* or resolved with a value
Rejected(error) == [rejected |-> TRUE, error |-> error, value |-> None]

Resolved(value) == [rejected |-> FALSE, error |-> None, value |-> value]

\* the catch block of an operation alone: an error was caught and
\* wrapGeminiError(error, context) is thrown
InitClassify ==
  /\ pc = "caught"
  /\ thrown \in UpstreamErrors
  /\ op \in Operations
  /\ outcome = None
  /\ wraps = 0
  /\ apiKey = None /\ imageData = None /\ calls = None
  /\ data = None /\ result = None /\ x = None /\ raw = None /\ extracted = None
  /\ ProseUnset /\ RouteUnset
  /\ LaterUnset

Classify ==
  /\ pc = "caught"
  /\ outcome' = Rejected(wrapGeminiError(thrown, Context(op)))
  /\ wraps' = wraps + 1
  /\ pc' = "classified"
  /\ UNCHANGED <<data, result, x, raw, extracted, proseVars,
                 concurrentVars, storeVars, envVars,
                 apiKey, op, imageData, calls, thrown, routeVars>>

NextClassify == Classify

SpecClassify == InitClassify /\ [][NextClassify]_vars

----------------------------------------------------------------------------
(* analyzeMealText and analyzeMealImage *)

M_cannot_convert ==
  <<"C", "a", "n", "n", "o", "t", " ", "c", "o", "n", "v", "e", "r", "t",
    " ", "o", "b", "j", "e", "c", "t", " ", "t", "o", " ", "p", "r", "i",
    "m", "i", "t", "i", "v", "e", " ", "v", "a", "l", "u", "e">>
M_unexpected_token ==
  <<"U", "n", "e", "x", "p", "e", "c", "t", "e", "d", " ", "t", "o", "k",
    "e", "n", " ", "i", "n", " ", "J", "S", "O", "N">>
M_is_not_valid_JSON ==
  <<" ", "i", "s", " ", "n", "o", "t", " ", "v", "a", "l", "i", "d", " ",
    "J", "S", "O", "N">>
S_data_url ==
  <<"d", "a", "t", "a", ":", "i", "m", "a", "g", "e", "/", "p", "n", "g",
    ";", "b", "a", "s", "e", "6", "4", ",">>

\* !apiKey || typeof apiKey !== 'string' || apiKey.trim().length === 0,
\* without the trim
apiKeyMissingUntrimmed(key) ==
  ~Truthy(key) \/ key.k # "str" \/ Len(key.v) = 0

\* getGeminiClient: !apiKey || typeof apiKey !== 'string' ||
\* apiKey.trim().length === 0
apiKeyMissing(key) ==
  ~Truthy(key) \/ key.k # "str" \/ Len(Trim(key.v)) = 0

\* the error getGeminiClient throws
MissingKeyError ==
  Err(S_Error, M_key_not_configured, Whole(401), Str(S_missing_api_key), Undefined)

\* the image argument: a Buffer (its bytes do not matter here), or any other
\* value
Buffer == [k |-> "buffer", v |-> <<>>]

\* neither Buffer.isBuffer(imageData) nor typeof imageData === 'string'
imageInvalid(image) == image.k \notin {"buffer", "str"}

\* the error analyzeMealImage throws on such an argument
InvalidImageError ==
  Err(S_Error, M_invalid_image, Whole(400), Str(S_invalid_image), Undefined)

\* the messages a SyntaxError of JSON.parse may carry: the wording is the
\* engine's, and it may quote the text that was parsed
SyntaxErrorMessages(text) ==
  { M_unexpected_token,
    <<"U", "n", "e", "x", "p", "e", "c", "t", "e", "d", " ", "t", "o", "k", "e", "n", ",", " ", "\"">>
      \o text \o <<"\"">> \o M_is_not_valid_JSON }

\* the errors extractJsonObject(text) may raise
ExtractErrors(text) ==
  IF extractJsonObject(text).error = "SyntaxError"
  THEN { Err(S_SyntaxError, m, Undefined, Undefined, Undefined) :
           m \in SyntaxErrorMessages(MatchBraces(text).text) }
  ELSE { Err(S_Error, M_failed_to_parse, Undefined, Undefined, Undefined) }

\* the error validateAndNormalizeNutritionData raises
NormalizeError ==
  Err(S_TypeError, M_cannot_convert, Undefined, Undefined, Undefined)

\* the catch block without the wrapping: the error is thrown on as it is
catchBlockRethrow(error, o) == Rejected(error)

\* catch (error) { ...; throw wrapGeminiError(error, 'Failed to analyze ...') }
catchBlock(error, o) == Rejected(wrapGeminiError(error, Context(o)))

\* the call fails with error: the catch block runs, the promise is rejected
Fail(error) ==
  /\ thrown' = error
  /\ wraps' = wraps + 1
  /\ outcome' = catchBlock(error, op)
  /\ pc' = "settled"

\* the operation up to its await: the credential, for an image the
\* conversion of the argument, and the call of generateContent
Analyze ==
  /\ pc = "call"
  /\ IF apiKeyMissing(apiKey) THEN Fail(MissingKeyError) /\ UNCHANGED calls
     ELSE IF op = "analyzeMealImage" /\ imageInvalid(imageData)
     THEN Fail(InvalidImageError) /\ UNCHANGED calls
     ELSE /\ calls' = Append(calls, "generateContent")
          /\ pc' = "awaiting"
          /\ UNCHANGED <<thrown, wraps, outcome>>
  /\ UNCHANGED <<data, result, x, raw, extracted, proseVars,
                 concurrentVars, storeVars, envVars,
                 apiKey, op, imageData, routeVars>>

\* generateContent resolves and result.response.text() gives text: the
\* operation goes on to extractJsonObject and
\* validateAndNormalizeNutritionData and returns, or catches what they raise
GenerateContentResolves(text) ==
  /\ pc = "awaiting"
  /\ raw' = text
  /\ extracted' = extractJsonObject(text)
  /\ IF extracted'.threw
     THEN /\ \E e \in ExtractErrors(text) : Fail(e)
          /\ UNCHANGED <<data, result>>
     ELSE /\ data' = extracted'.value
          /\ result' = validateAndNormalizeNutritionData(data')
          /\ IF result'.threw
             THEN Fail(NormalizeError)
             ELSE /\ outcome' = Resolved(result'.value)
                  /\ pc' = "settled"
                  /\ UNCHANGED <<thrown, wraps>>
  /\ UNCHANGED <<x, proseVars, concurrentVars, storeVars, envVars,
                 apiKey, op, imageData, calls, routeVars>>

\* a rejection that is answered by calling generateContent again, up to three
\* attempts, before the call fails
GenerateContentRejectsRetrying(error) ==
  /\ pc = "awaiting"
  /\ IF Len(calls) < 3
     THEN /\ calls' = Append(calls, "generateContent")
          /\ UNCHANGED <<pc, thrown, wraps, outcome>>
     ELSE Fail(error) /\ UNCHANGED calls
  /\ UNCHANGED <<data, result, x, raw, extracted, proseVars,
                 concurrentVars, storeVars, envVars,
                 apiKey, op, imageData, routeVars>>

\* generateContent rejects, or result.response.text() raises, with error
GenerateContentRejects(error) ==
  /\ pc = "awaiting"
  /\ Fail(error)
  /\ UNCHANGED <<data, result, x, raw, extracted, proseVars,
                 concurrentVars, storeVars, envVars,
                 apiKey, op, imageData, calls, routeVars>>

T_not_json ==
  <<"I", " ", "c", "a", "n", "n", "o", "t", " ", "h", "e", "l", "p", " ",
    "w", "i", "t", "h", " ", "t", "h", "a", "t", ".">>
T_api_key == <<"{", "a", "p", "i", " ", "k", "e", "y", "}">>
T_quota ==
  <<"{", "\"", "c", "a", "l", "o", "r", "i", "e", "s", "\"", ":", " ", "q",
    "u", "o", "t", "a", "}">>
T_apple ==
  <<"{", "\"", "d", "i", "s", "h", "e", "s", "\"", ":", "[", "{", "\"", "n",
    "a", "m", "e", "\"", ":", "\"", "a", "p", "p", "l", "e", "\"", ",", "\"",
    "n", "u", "t", "r", "i", "t", "i", "o", "n", "\"", ":", "{", "\"", "c",
    "a", "l", "o", "r", "i", "e", "s", "\"", ":", "9", "5", ",", "\"", "p",
    "r", "o", "t", "e", "i", "n", "_", "g", "\"", ":", "0", ".", "5", "}",
    "}", "]", "}">>
T_prose ==
  <<"S", "u", "r", "e", ":", " ", "{", "\"", "t", "o", "t", "a", "l", "\"",
    ":", "{", "\"", "c", "a", "l", "o", "r", "i", "e", "s", "\"", ":", "2",
    "0", "0", "}", "}", " ", "e", "n", "j", "o", "y">>
T_toString ==
  <<"{", "\"", "c", "a", "l", "o", "r", "i", "e", "s", "\"", ":", "{", "\"",
    "t", "o", "S", "t", "r", "i", "n", "g", "\"", ":", "0", "}", "}">>
T_not_a_number ==
  <<"{", "\"", "t", "o", "t", "a", "l", "\"", ":", "{", "\"", "c", "a", "l",
    "o", "r", "i", "e", "s", "\"", ":", "\"", "a", "b", "c", "\"", "}", "}">>
T_two ==
  <<"{", "\"", "a", "\"", ":", "1", "}", " ", "a", "n", "d", " ", "{", "\"",
    "b", "\"", ":", "2", "}">>

\* the texts of the model's responses: none, no JSON, broken JSON, JSON that
\* is no object, objects, an object in prose, and an object the normalizer
\* raises on, and an object whose total is not a number
ModelTexts ==
  { <<>>, T_not_json, T_api_key, T_quota, <<"5">>, <<"n", "u", "l", "l">>,
    <<"{", "}">>, T_apple, T_prose, T_toString, T_two, T_not_a_number }

\* process.env.GEMINI_API_KEY: not set, empty, blank, or a key
ApiKeys ==
  { Undefined, Str(<<>>), Str(<<" ">>), Str(<<" ", "\t", "\n">>),
    Str(<<"k", "1">>), Str(<<" ", "k", "1", " ">>) }

\* the image argument of analyzeMealImage: a Buffer, a base64 string, a data
\* URL, or a value that is neither
ImageArguments ==
  { Buffer, Str(<<"a", "Q", "=", "=">>), Str(S_data_url \o <<"a", "Q", "=", "=">>),
    Undefined, Null, Num(5000), Obj(<<>>) }

InitService ==
  /\ pc = "call"
  /\ apiKey \in ApiKeys
  /\ \/ op = "analyzeMealText" /\ imageData = Undefined
     \/ op = "analyzeMealImage" /\ imageData \in ImageArguments
  /\ calls = <<>>
  /\ thrown = None
  /\ wraps = 0
  /\ outcome = None
  /\ data = None /\ result = None /\ x = None /\ raw = None /\ extracted = None
  /\ ProseUnset /\ RouteUnset
  /\ LaterUnset

NextService ==
  \/ Analyze
  \/ \E text \in ModelTexts : GenerateContentResolves(text)
  \/ \E error \in UpstreamErrors : GenerateContentRejects(error)

SpecService == InitService /\ [][NextService]_vars

----------------------------------------------------------------------------
(* The routes: POST /entries and POST /analyze-meal-image *)

K_meal_text == <<"m", "e", "a", "l", "_", "t", "e", "x", "t">>
K_meal_dash_text == <<"m", "e", "a", "l", "-", "t", "e", "x", "t">>
K_foodText == <<"f", "o", "o", "d", "T", "e", "x", "t">>
M_calories_missing ==
  <<"C", "a", "l", "o", "r", "i", "e", "s", " ", "m", "i", "s", "s", "i",
    "n", "g", " ", "i", "n", " ", "n", "o", "r", "m", "a", "l", "i", "z",
    "e", "d", " ", "G", "e", "m", "i", "n", "i", " ", "r", "e", "s", "p",
    "o", "n", "s", "e">>
M_only_image_files ==
  <<"O", "n", "l", "y", " ", "i", "m", "a", "g", "e", " ", "f", "i", "l",
    "e", "s">>
M_exceeded_quota ==
  <<"e", "x", "c", "e", "e", "d", "e", "d", " ", "y", "o", "u", "r", " ",
    "c", "u", "r", "r", "e", "n", "t", " ", "q", "u", "o", "t", "a">>
M_path_required ==
  <<"P", "a", "t", "h", " ", "n", "a", "m", "e", " ", "i", "s", " ", "r",
    "e", "q", "u", "i", "r", "e", "d", ".">>
M_connection ==
  <<"c", "o", "n", "n", "e", "c", "t", "i", "o", "n", " ", "t", "i", "m",
    "e", "d", " ", "o", "u", "t">>
S_apple == <<"a", "p", "p", "l", "e">>
S_development == <<"d", "e", "v", "e", "l", "o", "p", "m", "e", "n", "t">>
S_production == <<"p", "r", "o", "d", "u", "c", "t", "i", "o", "n">>

\* /^\d{2}-\d{2}-\d{2}$/.test(date): the argument is converted to a string
dateRegexTest(date) ==
  LET cs == ToStr(date)
  IN /\ Len(cs) = 8
     /\ \A i \in {1, 2, 4, 5, 7, 8} : IsDigit(cs[i])
     /\ cs[3] = "-" /\ cs[6] = "-"

\* req.body.meal_text || req.body['meal-text']
mealTextOf(body) == Or(Get(body, K_meal_text), Get(body, K_meal_dash_text))

\* the test of mealText without the trim
mealTextRejectedUntrimmed(mealText) ==
  ~Truthy(mealText) \/ mealText.k # "str" \/ Len(mealText.v) = 0

\* !mealText || typeof mealText !== 'string' || mealText.trim().length === 0
mealTextRejected(mealText) ==
  ~Truthy(mealText) \/ mealText.k # "str" \/ Len(Trim(mealText.v)) = 0

\* a ?? b
Nullish(a, b) == IF a.k \in {"undef", "null"} THEN b ELSE a

\* error?.cause?.status and error?.cause?.code
causeField(error, field) ==
  IF error.cause = None THEN Undefined ELSE error.cause[field]

\* the catch block of a route: the status of the response it sends
routeCatch(error, route) ==
  LET status == Nullish(error.status, causeField(error, "status"))
      code == Nullish(error.code, causeField(error, "code"))
      lower == ToLowerCase(error.message)
  IN IF error.name = S_ValidationError THEN 400
     ELSE IF route = "image" /\ Includes(error.message, M_only_image_files) THEN 400
     ELSE IF \/ status = Whole(401)
             \/ code = Str(S_invalid_api_key) \/ code = Str(S_missing_api_key)
             \/ Includes(lower, S_api_key)
     THEN 401
     ELSE IF \/ status = Whole(429)
             \/ code = Str(S_insufficient_quota)
             \/ Includes(lower, S_rate_limit)
             \/ Includes(lower, IF route = "image" THEN M_exceeded_quota ELSE S_quota)
     THEN 429
     ELSE 500

\* the body of an error response: success false, the fixed text of error
\* with the text appended to it, if any, and details
ErrorBody(error, appended, details) ==
  [success |-> FALSE, error |-> error, appended |-> appended, details |-> details]

\* process.env.NODE_ENV === 'development' ? error.message : undefined
detailsOf(error) ==
  IF nodeEnv = Str(S_development) THEN Str(error.message) ELSE Undefined

\* the catch block of a route: the body of the response it sends
routeCatchBody(error, route) ==
  LET n == routeCatch(error, route)
  IN IF error.name = S_ValidationError
     THEN ErrorBody("Database validation error: ", error.message, Undefined)
     ELSE IF n = 400
     THEN ErrorBody("Invalid file type. Only image files are allowed.", <<>>, Undefined)
     ELSE IF n = 401
     THEN ErrorBody("Gemini authentication failed (missing/invalid API key). Update GEMINI_API_KEY in your .env and restart the server.",
                    <<>>, Undefined)
     ELSE IF n = 429
     THEN ErrorBody("Gemini request blocked (rate limit or quota). Check your Google AI usage/billing, then try again.",
                    <<>>, Undefined)
     ELSE ErrorBody(IF route = "image" THEN "Failed to analyze meal image"
                    ELSE "Failed to analyze meal text",
                    <<>>, detailsOf(error))

\* res.status(n).json(body)
Respond(n, body) ==
  /\ res' = [status |-> n, body |-> body]
  /\ pc' = "responded"

\* the catch block of the route of the request runs on error
Catch(error) == Respond(routeCatch(error, req.route), routeCatchBody(error, req.route))

\* the defensive check of the routes on the analysis: !nutritionData.total ||
\* !nutritionData.total.calories || typeof ...calories.value !== 'number'
caloriesMissing(nutritionData) ==
  \/ "total" \notin DOMAIN nutritionData
  \/ ~IsNumber(nutritionData.total.calories.value)

CaloriesMissingError ==
  Err(S_Error, M_calories_missing, Undefined, Undefined, Undefined)

\* detected_food_items.join(', ')
RECURSIVE joinNames(_, _)
joinNames(names, i) ==
  IF i = 0 THEN <<>>
  ELSE IF i = 1 THEN names[1]
  ELSE joinNames(names, i - 1) \o <<",", " ">> \o names[i]

\* entryData read from the flat keys of the older result: the total has no
\* protein_g, carbs_g or fat_g
entryDataFlatKeys(nutritionData) ==
  [name |-> Str(joinNames(nutritionData.detected_food_items,
                           Len(nutritionData.detected_food_items))),
   type |-> "meal",
   calories |-> nutritionData.calories,
   protein |-> Undefined,
   carbs |-> Undefined,
   fats |-> Undefined]

\* const entryData = { name, type: 'meal', calories, protein, carbs, fats,
\* date }: the date is the day of the request and is left out
entryData(nutritionData) ==
  [name |-> Str(joinNames(nutritionData.detected_food_items,
                           Len(nutritionData.detected_food_items))),
   type |-> "meal",
   calories |-> nutritionData.total.calories.value,
   protein |-> nutritionData.total.protein.value,
   carbs |-> nutritionData.total.carbs.value,
   fats |-> nutritionData.total.fat.value]

\* a path of type Number takes a number that is not NaN
castsToNumber(v) == IsNumber(v) /\ v.k # "nan"

\* entrySchema: name (String), type (meal or exercise) and calories (Number)
\* are required; protein, carbs and fats are Numbers where given
entryValid(doc) ==
  /\ doc.name.k = "str" /\ Len(doc.name.v) > 0
  /\ doc.type \in {"meal", "exercise"}
  /\ castsToNumber(doc.calories)
  /\ \A v \in {doc.protein, doc.carbs, doc.fats} : v = Undefined \/ castsToNumber(v)

\* the document Entry.create saves: createdAt is Date.now by default
savedEntry(doc) ==
  [id |-> Len(entries) + 1, name |-> doc.name, type |-> doc.type,
   calories |-> doc.calories, protein |-> doc.protein, carbs |-> doc.carbs,
   fats |-> doc.fats, createdAt |-> now]

\* POST /entries that saves an entry first and analyses the text afterwards
PostEntriesSavingFirst ==
  /\ pc = "request"
  /\ req.route = "entries"
  /\ IF ~dateRegexTest(req.date) \/ mealTextRejected(mealTextOf(req.body))
     THEN /\ Respond(400, ErrorBody("Invalid request", <<>>, Undefined))
          /\ UNCHANGED <<op, imageData, calls>>
     ELSE /\ calls' = Append(calls, "Entry.create")
          /\ op' = "analyzeMealText"
          /\ imageData' = Undefined
          /\ pc' = "call"
          /\ UNCHANGED res
  /\ UNCHANGED <<data, result, x, raw, extracted, proseVars,
                 concurrentVars, storeVars, envVars,
                 apiKey, thrown, wraps, outcome, req>>

\* POST /entries, to the call of analyzeMealText
PostEntries ==
  /\ pc = "request"
  /\ req.route = "entries"
  /\ IF ~dateRegexTest(req.date)
     THEN /\ Respond(400, ErrorBody("invalid date format. use dd-mm-yy format",
                                    <<>>, Undefined))
          /\ UNCHANGED <<op, imageData>>
     ELSE IF mealTextRejected(mealTextOf(req.body))
     THEN /\ Respond(400, ErrorBody("Invalid request: meal_text (or meal-text) is required and must be a non-empty string",
                                    <<>>, Undefined))
          /\ UNCHANGED <<op, imageData>>
     ELSE /\ op' = "analyzeMealText"
          /\ imageData' = Undefined
          /\ pc' = "call"
          /\ UNCHANGED res
  /\ UNCHANGED <<data, result, x, raw, extracted, proseVars,
                 concurrentVars, storeVars, envVars,
                 apiKey, calls, thrown, wraps, outcome, req>>

\* POST /analyze-meal-image, to the call of analyzeMealImage with the
\* buffer of the uploaded file
PostAnalyzeMealImage ==
  /\ pc = "request"
  /\ req.route = "image"
  /\ IF ~req.file
     THEN /\ Respond(400, ErrorBody("Invalid request: meal_image file is required",
                                    <<>>, Undefined))
          /\ UNCHANGED <<op, imageData>>
     ELSE /\ op' = "analyzeMealImage"
          /\ imageData' = Buffer
          /\ pc' = "call"
          /\ UNCHANGED res
  /\ UNCHANGED <<data, result, x, raw, extracted, proseVars,
                 concurrentVars, storeVars, envVars,
                 apiKey, calls, thrown, wraps, outcome, req>>

\* the route after the await of the analysis: its catch block on a failure,
\* else the defensive check and the call of Entry.create
RouteResumes ==
  /\ pc = "settled"
  /\ req # None
  /\ IF outcome.rejected
     THEN Catch(outcome.error) /\ UNCHANGED calls
     ELSE IF caloriesMissing(outcome.value)
     THEN Catch(CaloriesMissingError) /\ UNCHANGED calls
     ELSE /\ calls' = Append(calls, "Entry.create")
          /\ pc' = "saving"
          /\ UNCHANGED res
  /\ UNCHANGED <<data, result, x, raw, extracted, proseVars,
                 concurrentVars, storeVars, envVars,
                 apiKey, op, imageData, thrown, wraps, outcome, req>>

\* Entry.create resolves: the document is in the collection, res.status(201)
EntryCreateResolves ==
  /\ pc = "saving"
  /\ LET saved == savedEntry(entryData(outcome.value))
     IN /\ entryValid(entryData(outcome.value))
        /\ entries' = Append(entries, saved)
        /\ Respond(201, [success |-> TRUE, saved_entry |-> saved])
  /\ UNCHANGED <<data, result, x, raw, extracted, proseVars,
                 concurrentVars, now, envVars,
                 serviceVars, req>>

\* Entry.create rejects: the catch block of the route. A document that does
\* not pass the schema is rejected with a ValidationError, and no other
\* document is
EntryCreateRejects(error) ==
  /\ pc = "saving"
  /\ (error.name = S_ValidationError) <=> ~entryValid(entryData(outcome.value))
  /\ Catch(error)
  /\ UNCHANGED <<data, result, x, raw, extracted, proseVars,
                 concurrentVars, storeVars, envVars,
                 serviceVars, req>>

\* the errors of Entry.create: a validation error of the schema, and a
\* failure of the connection
DbErrors ==
  { Err(S_ValidationError, M_path_required, Undefined, Undefined, Undefined),
    Err(S_Error, M_connection, Undefined, Undefined, Undefined) }

\* req.query.date: absent, or a string
Dates ==
  { Undefined, Str(<<"0", "1", "-", "0", "2", "-", "2", "5">>),
    Str(<<"1", "-", "2", "-", "2", "5">>), Str(<<"0", "1", "/", "0", "2", "/", "2", "5">>),
    Str(<<"2", "0", "2", "5", "-", "0", "2", "-", "0", "1">>),
    Str(<<"0", "1", "-", "0", "2", "-", "2", "5", "\n">>),
    Str(<<"a", "b", "-", "c", "d", "-", "e", "f">>), Str(<<>>) }

\* the values of a field of the body
FieldValues ==
  { Undefined, Null, Str(<<>>), Str(<<" ", "\n">>), Str(S_apple),
    Str(<<" ">> \o S_apple \o <<" ">>), Num(5000), Arr(<<Str(S_apple)>>) }

\* req.body: meal_text, meal-text, both, neither, or another field
Bodies ==
  { MkObj(<< <<K_meal_text, a>>, <<K_meal_dash_text, b>> >>) :
      a \in FieldValues, b \in FieldValues } \cup
  { Obj(<< <<K_foodText, Str(S_apple)>> >>) }

Requests ==
  { [route |-> "entries", date |-> d, body |-> b, file |-> FALSE] :
      d \in Dates, b \in Bodies } \cup
  { [route |-> "image", date |-> Undefined, body |-> Obj(<<>>), file |-> f] :
      f \in BOOLEAN }

InitRoute ==
  /\ pc = "request"
  /\ req \in Requests
  /\ res = None
  /\ apiKey \in { Undefined, Str(<<"k", "1">>) }
  /\ op = None
  /\ imageData = None
  /\ calls = <<>>
  /\ thrown = None
  /\ wraps = 0
  /\ outcome = None
  /\ data = None /\ result = None /\ x = None /\ raw = None /\ extracted = None
  /\ ProseUnset
  /\ tasks = None
  /\ entries = <<>>
  /\ now = 0
  /\ nodeEnv \in { Undefined, Str(S_development), Str(S_production) }

\* the errors of the model call that carry their status on error.status
DirectErrors == { e \in UpstreamErrors : e.response = Undefined }

NextRoute ==
  \/ PostEntries
  \/ PostAnalyzeMealImage
  \/ Analyze
  \/ \E text \in ModelTexts : GenerateContentResolves(text)
  \/ \E error \in DirectErrors : GenerateContentRejects(error)
  \/ RouteResumes
  \/ EntryCreateResolves
  \/ \E error \in DbErrors : EntryCreateRejects(error)

SpecRoute == InitRoute /\ [][NextRoute]_vars

----------------------------------------------------------------------------
(* The service module the routes require: src/src/services/geminiService.js.
   Its getGeminiClient, extractJsonObject, wrapGeminiError and the two
   operations read as those above; its validateAndNormalizeNutritionData
   returns the flat object *)

K_detected_food_items ==
  <<"d", "e", "t", "e", "c", "t", "e", "d", "_", "f", "o", "o", "d", "_",
    "i", "t", "e", "m", "s">>

\* typeof data?.key === 'number' ? Math.round(data.key * 10) / 10 : 0, and
\* Math.max(0, ...)
flatTenth(data_, key) ==
  IF IsNumber(Get(data_, key))
  THEN MathMax0(DividedBy(MathRound(Times(Get(data_, key), 10)), 10))
  ELSE Num(0)

\* data.detected_food_items.filter(item => typeof item === 'string' &&
\* item.trim().length > 0), and ['Unidentified food items'] when none is left
flatFoodItems(data_) ==
  LET items == Get(data_, K_detected_food_items)
      kept == IF items.k = "arr"
              THEN SelectSeq(items.v, LAMBDA item :
                               item.k = "str" /\ Len(Trim(item.v)) > 0)
              ELSE <<>>
  IN IF Len(kept) = 0 THEN <<FallbackName>>
     ELSE [i \in 1..Len(kept) |-> kept[i].v]

\* validateAndNormalizeNutritionData of geminiService.js
flatValidateAndNormalizeNutritionData(data_) ==
  [detected_food_items |-> flatFoodItems(data_),
   calories |-> IF IsNumber(Get(data_, K_calories))
                THEN MathMax0(MathRound(Get(data_, K_calories)))
                ELSE Num(0),
   protein_g |-> flatTenth(data_, K_protein_g),
   carbs_g |-> flatTenth(data_, K_carbs_g),
   fat_g |-> flatTenth(data_, K_fat_g)]

\* generateContent resolves in an operation of geminiService.js: the text is
\* extracted and normalized to the flat object, which is returned
FlatGenerateContentResolves(text) ==
  /\ pc = "awaiting"
  /\ raw' = text
  /\ extracted' = extractJsonObject(text)
  /\ IF extracted'.threw
     THEN /\ \E e \in ExtractErrors(text) : Fail(e)
          /\ UNCHANGED <<data, result>>
     ELSE /\ data' = extracted'.value
          /\ result' = Returned(flatValidateAndNormalizeNutritionData(data'))
          /\ outcome' = Resolved(result'.value)
          /\ pc' = "settled"
          /\ UNCHANGED <<thrown, wraps>>
  /\ UNCHANGED <<x, proseVars, concurrentVars, storeVars, envVars,
                 apiKey, op, imageData, calls, routeVars>>

T_flat ==
  <<"{", "\"", "d", "e", "t", "e", "c", "t", "e", "d", "_", "f", "o", "o",
    "d", "_", "i", "t", "e", "m", "s", "\"", ":", "[", "\"", "a", "p", "p",
    "l", "e", "\"", "]", ",", "\"", "c", "a", "l", "o", "r", "i", "e", "s",
    "\"", ":", "9", "5", ",", "\"", "p", "r", "o", "t", "e", "i", "n", "_",
    "g", "\"", ":", "0", ".", "5", "}">>

\* the texts of the model's responses, and the answer the prompt of
\* geminiService.js asks for
FlatModelTexts == ModelTexts \cup { T_flat }

NextFlatService ==
  \/ Analyze
  \/ \E text \in FlatModelTexts : FlatGenerateContentResolves(text)
  \/ \E error \in UpstreamErrors : GenerateContentRejects(error)

SpecFlatService == InitService /\ [][NextFlatService]_vars

----------------------------------------------------------------------------
(* Concurrent calls of the service: each call of analyzeMealText or
   analyzeMealImage has its own locals and is suspended only at its await of
   generateContent; the calls of one process interleave at that point. The
   module has no variable of its own, and process.env is only read. *)

\* the number of calls in flight
NumCalls == 2

\* a call that has not begun: its operation and its image argument
NewTask(o, image) ==
  [pc |-> "call", op |-> o, imageData |-> image, calls |-> <<>>,
   text |-> None, error |-> None, outcome |-> None]

\* how the operation settles on the text of the model's response: what
\* extractJsonObject raises is caught, what the normalizer raises is caught,
\* else the normalized data is returned. The extracted and the normalized
\* value are bound as the elements of one-element sets, so each is computed
\* once
outcomesOfText(o, text) ==
  UNION { IF ext.threw THEN { catchBlock(e, o) : e \in ExtractErrors(text) }
          ELSE UNION { IF norm.threw THEN { catchBlock(NormalizeError, o) }
                       ELSE { Resolved(norm.value) } :
                         norm \in { validateAndNormalizeNutritionData(ext.value) } } :
            ext \in { extractJsonObject(text) } }

\* call i up to its await
TaskAnalyze(i) ==
  /\ tasks[i].pc = "call"
  /\ tasks' =
       IF apiKeyMissing(apiKey)
       THEN [tasks EXCEPT ![i].pc = "settled",
                          ![i].outcome = catchBlock(MissingKeyError, tasks[i].op)]
       ELSE IF tasks[i].op = "analyzeMealImage" /\ imageInvalid(tasks[i].imageData)
       THEN [tasks EXCEPT ![i].pc = "settled",
                          ![i].outcome = catchBlock(InvalidImageError, tasks[i].op)]
       ELSE [tasks EXCEPT ![i].pc = "awaiting",
                          ![i].calls = Append(tasks[i].calls, "generateContent")]
  /\ UNCHANGED <<pc, data, result, x, raw, extracted, proseVars, serviceVars,
                 routeVars, storeVars, envVars>>

\* the rest of call i with a result kept by the module: the first call that
\* returns stores its result, and a later call returns what is stored
TaskResolvesCached(i, text) ==
  /\ tasks[i].pc = "awaiting"
  /\ LET stored == { j \in DOMAIN tasks :
                       /\ tasks[j].pc = "settled"
                       /\ ~tasks[j].outcome.rejected }
     IN \E out \in IF stored = {} THEN outcomesOfText(tasks[i].op, text)
                    ELSE { tasks[j].outcome : j \in stored } :
          tasks' = [tasks EXCEPT ![i].pc = "settled",
                                 ![i].text = text,
                                 ![i].outcome = out]
  /\ UNCHANGED <<pc, data, result, x, raw, extracted, proseVars, serviceVars,
                 routeVars, storeVars, envVars>>

\* generateContent of call i resolves and its response gives text: the rest
\* of the call runs without another await
TaskResolves(i, text) ==
  /\ tasks[i].pc = "awaiting"
  /\ \E out \in outcomesOfText(tasks[i].op, text) :
       tasks' = [tasks EXCEPT ![i].pc = "settled",
                              ![i].text = text,
                              ![i].outcome = out]
  /\ UNCHANGED <<pc, data, result, x, raw, extracted, proseVars, serviceVars,
                 routeVars, storeVars, envVars>>

\* generateContent of call i rejects with error
TaskRejects(i, error) ==
  /\ tasks[i].pc = "awaiting"
  /\ tasks' = [tasks EXCEPT ![i].pc = "settled",
                            ![i].error = error,
                            ![i].outcome = catchBlock(error, tasks[i].op)]
  /\ UNCHANGED <<pc, data, result, x, raw, extracted, proseVars, serviceVars,
                 routeVars, storeVars, envVars>>

\* the responses of the model to concurrent calls
ConcurrentTexts == { T_not_json, T_api_key, <<"5">>, T_apple, T_prose, T_toString }

\* the errors generateContent rejects concurrent calls with
ConcurrentErrors ==
  { Err(S_Error, M_fetch_failed, Undefined, Undefined, Undefined),
    Err(S_Error, M_quota_exceeded, Whole(429), Undefined, Undefined),
    Err(S_Error, M_API_key_invalid, Whole(400), Undefined, Undefined) }

\* the calls in flight: text calls, image calls with a Buffer or a string,
\* image calls with an argument that is neither
ConcurrentTasks ==
  { NewTask("analyzeMealText", Undefined) } \cup
  { NewTask("analyzeMealImage", image) :
      image \in { Buffer, Str(<<"a", "Q", "=", "=">>), Undefined } }

InitConcurrent ==
  /\ tasks \in [1..NumCalls -> ConcurrentTasks]
  /\ apiKey \in { Undefined, Str(<<" ">>), Str(<<"k", "1">>) }
  /\ pc = None
  /\ op = None /\ imageData = None /\ calls = None
  /\ thrown = None /\ wraps = None /\ outcome = None
  /\ data = None /\ result = None /\ x = None /\ raw = None /\ extracted = None
  /\ ProseUnset /\ RouteUnset
  /\ entries = None /\ now = None /\ nodeEnv = None

NextConcurrent ==
  \E i \in 1..NumCalls :
    \/ TaskAnalyze(i)
    \/ \E text \in ConcurrentTexts : TaskResolves(i, text)
    \/ \E error \in ConcurrentErrors : TaskRejects(i, error)

SpecConcurrent == InitConcurrent /\ [][NextConcurrent]_vars

----------------------------------------------------------------------------
(* The entries collection over many requests: successful submissions save
   their entries one after another, and GET /entries reads the collection *)

\* .limit(50)
Limit == 50

\* the number of submissions
MaxSubmissions == 52

\* the number of submissions whose entry is created in the same millisecond
\* as the entry before it
MaxSameMillisecond == 1

\* the analysis of the text of a request that names an apple
AppleAnalysis == validateAndNormalizeNutritionData(extractJsonObject(T_apple).value).value

\* the entryData of that request
AppleEntryData == entryData(AppleAnalysis)

\* an entry of the other type of the schema, saved by another client of the
\* collection
ExerciseEntry ==
  [id |-> 1, name |-> Str(<<"r", "u", "n">>), type |-> "exercise",
   calories |-> Whole(300), protein |-> Undefined, carbs |-> Undefined,
   fats |-> Undefined, createdAt |-> 0]

\* the entries created in the millisecond of the entry before them
SameMillisecond(es) ==
  { i \in 2..Len(es) : es[i].createdAt = es[i - 1].createdAt }

\* a submission succeeds: its analysis returned, Entry.create(entryData)
\* resolved and the route answered 201. The steps between are those of
\* PostEntries, Analyze, GenerateContentResolves, RouteResumes and
\* EntryCreateResolves, with the clock read when the document is created.
\* Until the next request the clock stays in its millisecond (elapsed = 0)
\* or moves on
Submission(elapsed) ==
  /\ pc = "idle"
  /\ Len(entries) < MaxSubmissions
  /\ elapsed = 0 => Cardinality(SameMillisecond(entries)) < MaxSameMillisecond
  /\ entryValid(AppleEntryData)
  /\ entries' = Append(entries, savedEntry(AppleEntryData))
  /\ now' = now + elapsed
  /\ UNCHANGED <<pc, data, result, x, raw, extracted, proseVars, serviceVars,
                 routeVars, concurrentVars, envVars>>

\* the greatest createdAt among the documents at the positions idx of es
Latest(es, idx) ==
  LET times == { es[i].createdAt : i \in idx }
  IN CHOOSE t \in times : \A u \in times : u <= t

\* .sort({ createdAt: -1 }) on the documents at the positions idx of es: the
\* orders in which they may be returned. Documents of equal createdAt come
\* in an order the database chooses
RECURSIVE sortDescending(_, _)
sortDescending(es, idx) ==
  IF idx = {} THEN { <<>> }
  ELSE LET top == Latest(es, idx)
       IN UNION { { <<es[h]>> \o rest : rest \in sortDescending(es, idx \ {h}) } :
                    h \in { i \in idx : es[i].createdAt = top } }

\* .limit(n)
limit(s, n) == SubSeq(s, 1, IF Len(s) < n THEN Len(s) ELSE n)

\* Entry.find({ type: 'meal' }).sort({ createdAt: -1 }).limit(50)
findMeals ==
  { limit(s, Limit) :
      s \in sortDescending(entries, { i \in 1..Len(entries) : entries[i].type = "meal" }) }

\* GET /entries: the query resolves and the route answers 200
GetEntries ==
  /\ pc = "idle"
  /\ \E found \in findMeals :
       Respond(200, [success |-> TRUE, count |-> Len(found), data |-> found])
  /\ UNCHANGED <<data, result, x, raw, extracted, proseVars, serviceVars,
                 req, concurrentVars, storeVars, envVars>>

\* GET /entries: the query rejects and the catch block answers 500
GetEntriesFails(error) ==
  /\ pc = "idle"
  /\ Respond(500, ErrorBody("Failed to fetch entries", <<>>, detailsOf(error)))
  /\ UNCHANGED <<data, result, x, raw, extracted, proseVars, serviceVars,
                 req, concurrentVars, storeVars, envVars>>

InitEntries ==
  /\ pc = "idle"
  /\ entries \in { <<>>, <<ExerciseEntry>> }
  /\ now = 0
  /\ res = None
  /\ req = None
  /\ nodeEnv = Undefined
  /\ tasks = None
  /\ data = None /\ result = None /\ x = None /\ raw = None /\ extracted = None
  /\ ProseUnset /\ ServiceUnset

NextEntries ==
  \/ \E elapsed \in {0, 1} : Submission(elapsed)
  \/ GetEntries
  \/ GetEntriesFails(Err(S_Error, M_connection, Undefined, Undefined, Undefined))

SpecEntries == InitEntries /\ [][NextEntries]_vars

----------------------------------------------------------------------------
(* Vocabulary of the claims about the normalizer *)

Done == pc = "normalized"

Returns == Done /\ ~result.threw

QuantityFields == {"calories", "protein", "carbs", "fat"}

\* the raw key a quantity is read from
RawKey(f) ==
  CASE f = "calories" -> K_calories
    [] f = "protein" -> K_protein_g
    [] f = "carbs" -> K_carbs_g
    [] OTHER -> K_fat_g

\* a name with non-whitespace content
NameIsValid(entry) ==
  /\ Get(entry, K_name).k = "str"
  /\ \E i \in 1..Len(Get(entry, K_name).v) : Get(entry, K_name).v[i] \notin WhiteSpace

\* the positions of the entries of data.dishes that have a valid name
ValidPositions(d) ==
  IF Get(d, K_dishes).k = "arr"
  THEN { i \in 1..Len(Get(d, K_dishes).v) : NameIsValid(Get(d, K_dishes).v[i]) }
  ELSE {}

\* the entries of data.dishes that have a valid name, in the array's order
RECURSIVE ValidEntries(_, _)
ValidEntries(es, i) ==
  IF i = 0 THEN <<>>
  ELSE IF NameIsValid(es[i]) THEN Append(ValidEntries(es, i - 1), es[i])
  ELSE ValidEntries(es, i - 1)

ValidEntriesOf(d) ==
  IF Get(d, K_dishes).k = "arr"
  THEN ValidEntries(Get(d, K_dishes).v, Len(Get(d, K_dishes).v))
  ELSE <<>>

\* the sum of the returned dishes' values of one quantity
RECURSIVE DishSum(_, _, _)
DishSum(dishes, f, i) ==
  IF i = 0 THEN Num(0) ELSE Plus(DishSum(dishes, f, i - 1), dishes[i].nutrition[f].value)

DishSumOf(f) == DishSum(result.value.dishes, f, Len(result.value.dishes))

\* every nutrition quantity of the result: of each dish and of the total
AllQuantities ==
  { result.value.dishes[i].nutrition[f] :
      i \in 1..Len(result.value.dishes), f \in QuantityFields } \cup
  { result.value.total[f] : f \in QuantityFields }

\* a raw value that is missing or is not a number
NotANumber(a) == ~IsNumber(a)

\* a finite number without a fraction (1e308 is one)
IsInteger(a) == a.k = "huge" \/ (a.k = "num" /\ a.v % Unit = 0)

\* a finite number with at most two decimal places
HasTwoDecimals(a) == a.k = "huge" \/ (a.k = "num" /\ a.v % (Unit \div 100) = 0)

----------------------------------------------------------------------------
(* Claims *)

\* C1: validateAndNormalizeNutritionData never raises: for every JSON-decodable
\* input it returns a result with a non-empty dishes sequence, a total whose
\* four quantities have the form {value, unit}, and the five legacy fields.
C1_NeverRaises ==
  Done =>
    /\ ~result.threw
    /\ Len(result.value.dishes) > 0
    /\ \A f \in QuantityFields : DOMAIN result.value.total[f] = {"value", "unit"}
    /\ {"detected_food_items", "calories", "protein_g", "carbs_g", "fat_g"}
         \subseteq DOMAIN result.value

\* C2: for every input in which no dish entry is valid, normalize returns
\* exactly one dish, named "Unidentified food items", detected_food_items is
\* exactly that one name, and for the input {} every value is 0.
C2_FallbackDish ==
  Done /\ ValidPositions(data) = {} =>
    /\ ~result.threw
    /\ Len(result.value.dishes) = 1
    /\ result.value.dishes[1].name = FallbackName
    /\ result.value.detected_food_items = <<FallbackName>>
    /\ data = Obj(<<>>) => \A q \in AllQuantities : q.value = Num(0)

\* C3: for every input with at least one valid dish and no total, each field
\* of the returned total equals the sum of the corresponding normalized
\* values of the returned dishes.
C3_TotalIsDishSum ==
  Returns /\ ValidPositions(data) # {} /\ ~HasOwn(data, K_total) =>
    \A f \in QuantityFields : result.value.total[f].value = DishSumOf(f)

\* C4: in every result every nutrition value is a finite number >= 0,
\* calories are integers, gram values have at most 2 decimal places, and the
\* units are kcal, g, g, g.
C4_ValuesFiniteNonNegative ==
  Returns =>
    /\ \A q \in AllQuantities : IsFinite(q.value) /\ q.value.v >= 0
    /\ \A n \in { result.value.dishes[i].nutrition : i \in 1..Len(result.value.dishes) }
                \cup { result.value.total } :
         /\ IsInteger(n.calories.value)
         /\ \A f \in {"protein", "carbs", "fat"} : HasTwoDecimals(n[f].value)
         /\ <<n.calories.unit, n.protein.unit, n.carbs.unit, n.fat.unit>>
              = <<"kcal", "g", "g", "g">>

\* C5: a nutrition sub-field of a kept dish or of a supplied total whose raw
\* value is missing or is not a number is normalized to 0.
C5_NonNumericIsZero ==
  Returns =>
    /\ \A i \in 1..Len(ValidEntriesOf(data)) : \A f \in QuantityFields :
         NotANumber(Get(Get(ValidEntriesOf(data)[i], K_nutrition), RawKey(f)))
           => result.value.dishes[i].nutrition[f].value = Num(0)
    /\ Get(data, K_total).k = "obj" =>
         \A f \in QuantityFields :
           NotANumber(Get(Get(data, K_total), RawKey(f)))
             => result.value.total[f].value = Num(0)

\* C6: every returned dish name is a non-empty string without leading or
\* trailing whitespace; entries whose name is missing, not a string or blank
\* are dropped, and the kept dishes keep the order of the input array.
C6_NamesTrimmedInOrder ==
  Returns =>
    LET names == [i \in 1..Len(result.value.dishes) |-> result.value.dishes[i].name]
        valid == ValidEntriesOf(data)
    IN /\ \A i \in 1..Len(names) :
            /\ Len(names[i]) > 0
            /\ names[i][1] \notin WhiteSpace
            /\ names[i][Len(names[i])] \notin WhiteSpace
       /\ valid # <<>> =>
            names = [i \in 1..Len(valid) |-> Trim(Get(valid[i], K_name).v)]

\* C6 witness: of three entries the one with a blank name was dropped and the
\* other two were kept in input order, the first of them with its name trimmed.
C6_Witness ==
  /\ Returns
  /\ Get(data, K_dishes).k = "arr"
  /\ Len(Get(data, K_dishes).v) = 3
  /\ Get(Get(data, K_dishes).v[1], K_name) = Str(<<" ", "a", " ">>)
  /\ Get(Get(data, K_dishes).v[2], K_name) = Str(<<" ", " ">>)
  /\ Len(result.value.dishes) = 2
  /\ result.value.dishes[1].name = <<"a">>
  /\ result.value.dishes[2].name = <<"b">>

\* C7: the legacy view is a projection of the canonical fields:
\* detected_food_items is the sequence of dish names in order, and calories,
\* protein_g, carbs_g, fat_g are the values of the total.
C7_LegacyIsProjection ==
  Returns =>
    /\ result.value.detected_food_items =
         [i \in 1..Len(result.value.dishes) |-> result.value.dishes[i].name]
    /\ result.value.calories = result.value.total.calories.value
    /\ result.value.protein_g = result.value.total.protein.value
    /\ result.value.carbs_g = result.value.total.carbs.value
    /\ result.value.fat_g = result.value.total.fat.value

\* C7 witness: a result with two dishes whose supplied total differs from the
\* dishes' sum, so that the legacy numbers can only come from the total.
C7_Witness ==
  /\ Returns
  /\ Len(result.value.dishes) = 2
  /\ result.value.total.calories.value = Num(500000)
  /\ DishSumOf("calories") # Num(500000)
  /\ result.value.calories = Num(500000)

\* C8: when parsed.total is present and object-shaped the returned total is
\* parsed.total coerced and rounded like dish nutrition; in every other case
\* (absent, null, a primitive, or an array) it is the sum of the dishes.
C8_TotalResolution ==
  Returns =>
    IF Get(data, K_total).k = "obj"
    THEN result.value.total = formatNutritionWithUnits(Get(data, K_total))
    ELSE \A f \in QuantityFields : result.value.total[f].value = DishSumOf(f)

\* C9: in every successful analysis response total.calories.value equals the
\* sum over the returned dishes of dish.nutrition.calories.value.
C9_TotalCaloriesMatchDishes ==
  Returns => result.value.total.calories.value = DishSumOf("calories")

\* C10: extractJsonObject(JSON.stringify(x)) returns a value equal to x, for
\* every JSON object x.
C10_RoundTrip ==
  pc = "extracted" => ~extracted.threw /\ extracted.value = x

\* C10 witness: the round trip of an object whose text holds braces and an
\* escaped quote inside a string, and a nested object.
C10_Witness ==
  /\ pc = "extracted"
  /\ ~extracted.threw
  /\ \E i \in 1..Len(x.v) : x.v[i][1] = <<"}", "\"">> /\ x.v[i][2].k = "obj"
  /\ \E i \in 1..(Len(raw) - 1) : raw[i] = "\\" /\ raw[i + 1] = "\""

----------------------------------------------------------------------------
(* Claims about the extractor on arbitrary text *)

\* a text without the character c
Without(cs, c) == \A i \in 1..Len(cs) : cs[i] # c

\* a text that is a JSON text as a whole
IsJsonText(cs) == JSON_parse(cs).ok

\* C11 (as stated): for raw text consisting of prose, then the serialization
\* of a JSON object, then prose, extractJsonObject returns that object.
C11_RecoversFromProse ==
  pc = "extracted" => ~extracted.threw /\ extracted.value = x

\* C11 (amended): when the prose before the object holds no "{" and the prose
\* after it holds no "}", extractJsonObject returns that object, unless the
\* raw text as a whole is a JSON text, and then it returns the value of the
\* whole text.
C11_RecoversFromBraceFreeProse ==
  pc = "extracted" /\ Without(before, "{") /\ Without(after, "}") =>
    IF IsJsonText(raw)
    THEN extracted = Gave(JSON_parse(raw).val)
    ELSE ~extracted.threw /\ extracted.value = x

\* C11 witness: an object whose text holds a "}" inside a string was
\* recovered from between a sentence before it and a sentence after it.
C11_Witness ==
  /\ pc = "extracted"
  /\ before = <<"H", "e", "r", "e", ":", " ">>
  /\ after = <<" ", "o", "k", ".">>
  /\ ~IsJsonText(raw)
  /\ \E i \in 1..Len(x.v) : x.v[i][2] = Str(<<"}">>)
  /\ ~extracted.threw
  /\ extracted.value = x

\* C12: extractJsonObject either returns a JSON object or fails: it never
\* returns a value that is not an object, and it fails on every text that is
\* empty or is a JSON text of a number, a string, null, a boolean or an array.
C12_ObjectOrFails ==
  pc = "extracted" =>
    /\ extracted.threw \/ extracted.value.k = "obj"
    /\ (raw = <<>> \/ (IsJsonText(raw) /\ JSON_parse(raw).val.k # "obj")) => extracted.threw

----------------------------------------------------------------------------
(* Claims about wrapGeminiError *)

\* the places of an error where an HTTP status may be, in the order of lookup
StatusPlaces(e) ==
  <<e.status, Get(e.response, K_status), Get(e.response, K_statusCode)>>

\* the first place of the error that is set (holds a truthy value) holds one
\* of the statuses
FirstStatusIn(e, statuses) ==
  \E i \in 1..3 :
    /\ \E s \in statuses : StatusPlaces(e)[i] = Whole(s)
    /\ \A j \in 1..(i - 1) : ~Truthy(StatusPlaces(e)[j])

\* the message contains one of the words, whatever the case of its letters
Mentions(e, words) == \E w \in words : Includes(ToLowerCase(e.message), w)

UnauthorizedWords == { S_api_key, S_permission, S_unauthorized }

RateLimitWords == { S_quota, S_rate_limit, S_resource_exhausted }

IsUnauthorized(wrapped) ==
  wrapped.status = Whole(401) /\ wrapped.code = Str(S_invalid_api_key)

IsRateLimited(wrapped) ==
  wrapped.status = Whole(429) /\ wrapped.code = Str(S_insufficient_quota)

\* C15: every error that has upstream status 429 (the status is the first set
\* place among error.status, error.response.status and
\* error.response.statusCode), or whose message contains "quota", "rate
\* limit" or "resource_exhausted" in any case of letters, and that matches
\* none of the Unauthorized criteria (upstream status 401 or 403, a message
\* with "api key", "permission" or "unauthorized"), is classified
\* RateLimited: status 429 and code insufficient_quota.
C15_RateLimited ==
  /\ pc = "classified"
  /\ FirstStatusIn(thrown, {429}) \/ Mentions(thrown, RateLimitWords)
  /\ ~(FirstStatusIn(thrown, {401, 403}) \/ Mentions(thrown, UnauthorizedWords))
  => IsRateLimited(outcome.error)

\* C15 witness: the error with status 429 and message "quota exceeded" was
\* classified RateLimited, its status 429 and its code insufficient_quota.
C15_Witness ==
  /\ pc = "classified"
  /\ thrown.status = Whole(429)
  /\ thrown.message = M_quota_exceeded
  /\ IsRateLimited(outcome.error)

----------------------------------------------------------------------------
(* Claims about analyzeMealText and analyzeMealImage *)

S_invalid_model_response ==
  <<"i", "n", "v", "a", "l", "i", "d", "_", "m", "o", "d", "e", "l", "_",
    "r", "e", "s", "p", "o", "n", "s", "e">>

\* the credential is absent, empty or whitespace-only
CredentialAbsent ==
  apiKey = Undefined \/ (apiKey.k = "str" /\ \A i \in 1..Len(apiKey.v) : apiKey.v[i] \in WhiteSpace)

Settled == pc = "settled"

Failed_ == Settled /\ outcome.rejected

\* cs starts with the characters of prefix
StartsWith(cs, prefix) ==
  Len(cs) >= Len(prefix) /\ SubSeq(cs, 1, Len(prefix)) = prefix

\* C13: when GEMINI_API_KEY is absent, empty or whitespace-only,
\* analyzeMealText and analyzeMealImage fail with an error whose code, as
\* the caller sees it, is missing_api_key.
C13_MissingKeyCode ==
  Settled /\ CredentialAbsent =>
    outcome.rejected /\ outcome.error.code = Str(S_missing_api_key)

\* C14: when the credential is absent, empty or whitespace-only, a call of
\* analyzeMealText or analyzeMealImage fails without generateContent ever
\* being called: at no point of the call is it among the calls made or
\* awaited, and the call settles as a failure.
C14_NoModelCallWithoutKey ==
  CredentialAbsent =>
    /\ calls = <<>>
    /\ pc # "awaiting"
    /\ Settled => outcome.rejected

\* C14 witness: an image call with a whitespace-only credential has failed
\* and made no call.
C14_Witness ==
  /\ Settled
  /\ op = "analyzeMealImage"
  /\ apiKey = Str(<<" ", "\t", "\n">>)
  /\ outcome.rejected
  /\ calls = <<>>

\* C17: when the model returns text from which no JSON object can be
\* extracted, the call fails with an error classified Upstream (no status of
\* the Unauthorized, RateLimited or BadInput categories) with code
\* invalid_model_response, whatever the text.
C17_InvalidModelResponse ==
  Settled /\ extracted # None /\ extracted.threw =>
    /\ outcome.rejected
    /\ outcome.error.code = Str(S_invalid_model_response)
    /\ outcome.error.status \notin { Whole(400), Whole(401), Whole(429) }

\* C18: every failure of analyzeMealText or analyzeMealImage, whichever step
\* raised it, reaches the caller as an error that wrapGeminiError produced,
\* once: its cause is the error the step raised, which is not itself a
\* wrapped error, and its message starts with the context string of the
\* operation.
C18_WrappedOnce ==
  Failed_ =>
    /\ wraps = 1
    /\ outcome.error.cause = thrown
    /\ thrown.cause = None
    /\ StartsWith(outcome.error.message, Context(op) \o <<":", " ">>)

\* C18 witness: an image call failed in the conversion of its argument, and
\* a call failed in the extraction with a SyntaxError; here the first.
C18_Witness ==
  /\ Failed_
  /\ op = "analyzeMealImage"
  /\ thrown = InvalidImageError
  /\ outcome.error.cause = InvalidImageError
  /\ StartsWith(outcome.error.message, M_image_context)

----------------------------------------------------------------------------
(* Claims about the routes *)

Responded == pc = "responded"

\* the analysis of the request failed
AnalysisFailed == outcome # None /\ outcome.rejected

\* the transport status of the category of a classified error: Unauthorized
\* (status 401), RateLimited (status 429), BadInput (status 400), and
\* Upstream or Unknown (any other status, or none)
CategoryStatus(error) ==
  CASE error.status = Whole(401) -> 401
    [] error.status = Whole(429) -> 429
    [] error.status = Whole(400) -> 400
    [] OTHER -> 500

\* C19: the route handlers answer every failed analysis with the transport
\* status of the error's category: Unauthorized gives 401, RateLimited 429,
\* BadInput (an error carrying status 400) 400, Upstream and Unknown 500.
C19_StatusByCategory ==
  Responded /\ AnalysisFailed => res.status = CategoryStatus(outcome.error)

\* a field of the body that is missing, not a string, or whitespace-only
FieldUnusable(a) ==
  a.k # "str" \/ \A i \in 1..Len(a.v) : a.v[i] \in WhiteSpace

\* the date parameter has the form dd-mm-yy
IsDDMMYY(date) ==
  /\ date.k = "str"
  /\ Len(date.v) = 8
  /\ date.v[3] = "-" /\ date.v[6] = "-"
  /\ \A i \in {1, 2, 4, 5, 7, 8} : \E d \in 1..10 : date.v[i] = DigitChars[d]

\* the request is one that input validation rejects
ValidationRejects(r) ==
  \/ ~IsDDMMYY(r.date)
  \/ FieldUnusable(Get(r.body, K_meal_text)) /\ FieldUnusable(Get(r.body, K_meal_dash_text))

\* C20: a text-analysis request that input validation rejects (meal_text and
\* meal-text both missing, non-string or whitespace-only, or the date not in
\* dd-mm-yy form) is answered with HTTP 400, and in that request neither
\* generateContent nor Entry.create is ever called.
C20_ValidationRejects ==
  req.route = "entries" /\ ValidationRejects(req) =>
    /\ calls = <<>>
    /\ pc \in {"request", "responded"}
    /\ Responded => res.status = 400

\* C20 witness: a request with a date in dd-mm-yy form whose body holds only
\* foodText was answered with 400 and made no call.
C20_Witness ==
  /\ Responded
  /\ req.route = "entries"
  /\ IsDDMMYY(req.date)
  /\ req.body = Obj(<< <<K_foodText, Str(S_apple)>> >>)
  /\ res.status = 400
  /\ calls = <<>>

----------------------------------------------------------------------------
(* Claims about the order of the steps of a call *)

\* the number of times the call has invoked generateContent
GenerationCalls == Len(SelectSeq(calls, LAMBDA c : c = "generateContent"))

\* C21: no retries. Within one analyzeMealText or analyzeMealImage call
\* generateContent is invoked at most once, and the step in which the call
\* catches an error after the invocation settles the call as a failure
\* without a further invocation.
C21_NoRetries ==
  /\ [](GenerationCalls <= 1)
  /\ [][pc = "awaiting" /\ thrown' # thrown
          => pc' = "settled" /\ outcome'.rejected /\ calls' = calls]_vars

\* generateContent was invoked, rejected with a network failure, and the call
\* has failed
C21_Witness ==
  /\ Settled
  /\ outcome.rejected
  /\ thrown # None
  /\ thrown.message = M_fetch_failed
  /\ calls = <<"generateContent">>

----------------------------------------------------------------------------
(* Claims about concurrent calls *)

\* how a call with this operation and image argument settles when it runs
\* alone with the credential of the process and is given this response (a
\* text, or an error of generateContent) if it comes to ask for one
AloneOutcomes(o, image, text, error) ==
  IF apiKeyMissing(apiKey)
  THEN { Rejected(wrapGeminiError(MissingKeyError, Context(o))) }
  ELSE IF o = "analyzeMealImage" /\ imageInvalid(image)
  THEN { Rejected(wrapGeminiError(InvalidImageError, Context(o))) }
  ELSE IF error # None
  THEN { Rejected(wrapGeminiError(error, Context(o))) }
  ELSE LET ext == extractJsonObject(text)
       IN IF ext.threw
          THEN { Rejected(wrapGeminiError(e, Context(o))) : e \in ExtractErrors(text) }
          ELSE LET norm == validateAndNormalizeNutritionData(ext.value)
               IN IF norm.threw
                  THEN { Rejected(wrapGeminiError(NormalizeError, Context(o))) }
                  ELSE { Resolved(norm.value) }

\* C22: concurrent calls do not interact. In every interleaving of the calls
\* in flight, a call that has settled has the result or error that its own
\* operation, argument and model response give when the call runs alone,
\* whatever the other calls were given and whenever they ran; and a call
\* makes its own single request to the model.
C22_CallsDoNotInteract ==
  \A i \in DOMAIN tasks :
    /\ Len(tasks[i].calls) <= 1
    /\ tasks[i].pc = "settled" =>
         tasks[i].outcome \in
           AloneOutcomes(tasks[i].op, tasks[i].imageData, tasks[i].text, tasks[i].error)

\* two calls were suspended at their model call together; the second to
\* start was answered first, with an apple, and the first then got text that
\* is no JSON: one has its result and the other its error
C22_Witness ==
  /\ tasks[1].pc = "settled" /\ tasks[2].pc = "settled"
  /\ tasks[1].text = T_not_json /\ tasks[1].outcome.rejected
  /\ tasks[2].text = T_apple /\ ~tasks[2].outcome.rejected
  /\ tasks[2].outcome.value.detected_food_items = <<S_apple>>

----------------------------------------------------------------------------
(* Claims about the saved entry *)

\* the names in order, with a comma and a space between two of them
RECURSIVE CommaSeparated(_)
CommaSeparated(names) ==
  IF names = <<>> THEN <<>>
  ELSE IF Len(names) = 1 THEN Head(names)
  ELSE Head(names) \o <<",", " ">> \o CommaSeparated(Tail(names))

\* a value that is a number, and not undefined, null or NaN
DefinedNumber(v) == v.k \in {"num", "huge", "inf"}

\* the entry the request has saved
Persisted == entries[Len(entries)]

\* C23: for every request answered with 201, the persisted entry has type
\* 'meal', its name is the detected food items joined by ", ", and its
\* calories, protein, carbs and fats are defined numbers equal to the
\* values of total.calories, total.protein, total.carbs and total.fat of the
\* analysis result.
C23_PersistedEntry ==
  Responded /\ res.status = 201 =>
    /\ Len(entries) = 1
    /\ res.body.saved_entry = Persisted
    /\ Persisted.type = "meal"
    /\ Persisted.name = Str(CommaSeparated(outcome.value.detected_food_items))
    /\ DefinedNumber(Persisted.calories)
    /\ DefinedNumber(Persisted.protein)
    /\ DefinedNumber(Persisted.carbs)
    /\ DefinedNumber(Persisted.fats)
    /\ Persisted.calories = outcome.value.total.calories.value
    /\ Persisted.protein = outcome.value.total.protein.value
    /\ Persisted.carbs = outcome.value.total.carbs.value
    /\ Persisted.fats = outcome.value.total.fat.value

\* a text request was answered with 201 after the model named an apple of 95
\* kcal and 0.5 g of protein
C23_Witness ==
  /\ Responded
  /\ res.status = 201
  /\ req.route = "entries"
  /\ Persisted.name = Str(S_apple)
  /\ Persisted.calories = Whole(95)
  /\ Persisted.protein = Num(500)

----------------------------------------------------------------------------
(* Claims about GET /entries *)

\* the meal entries of the collection in the order they were saved
SavedMeals == SelectSeq(entries, LAMBDA e : e.type = "meal")

\* GET /entries has answered with the entries it found
Listed == Responded /\ res.status = 200

\* C24: after any sequence of successful meal submissions, GET /entries
\* returns only entries of type 'meal', at most 50 of them, ordered most
\* recently created first, and the first element is the entry that the
\* latest successful submission saved.
C24_LatestFirst ==
  Listed =>
    LET found == res.body.data
    IN /\ \A i \in 1..Len(found) : found[i].type = "meal"
       /\ Len(found) <= 50
       /\ \A i \in 1..(Len(found) - 1) : found[i].createdAt >= found[i + 1].createdAt
       /\ SavedMeals # <<>> => found[1] = SavedMeals[Len(SavedMeals)]

----------------------------------------------------------------------------
(* Claims about the text of the error responses *)

\* the kind of a classified error
KindOf(error) ==
  CASE error.status = Whole(401) -> "unauthorized"
    [] error.status = Whole(429) -> "rate limited"
    [] OTHER -> "other"

\* the body a route sends for a kind of error, whatever the error says
StableBody(kind, route) ==
  CASE kind = "unauthorized" ->
         ErrorBody("Gemini authentication failed (missing/invalid API key). Update GEMINI_API_KEY in your .env and restart the server.",
                   <<>>, Undefined)
    [] kind = "rate limited" ->
         ErrorBody("Gemini request blocked (rate limit or quota). Check your Google AI usage/billing, then try again.",
                   <<>>, Undefined)
    [] OTHER ->
         ErrorBody(IF route = "image" THEN "Failed to analyze meal image"
                   ELSE "Failed to analyze meal text",
                   <<>>, Undefined)

\* C25: the error text returned to the end user depends only on the kind of
\* the error (unauthorized, rate limited, other): the body of the response to
\* a failed analysis is the fixed body of the error's kind for the route, so
\* two failures of one kind with different upstream messages get identical
\* bodies and no upstream text appears in a response.
C25_BodyByKind ==
  Responded /\ AnalysisFailed =>
    res.body = StableBody(KindOf(outcome.error), req.route)

----------------------------------------------------------------------------
(* Claims about the fallback dish *)

\* the raw value of a field of the fallback dish: the top-level field where
\* the input has it, else the field of total where total has it, else 0
PreferredSource(d, key) ==
  IF HasOwn(d, key) THEN Get(d, key)
  ELSE IF HasOwn(Get(d, K_total), key) THEN Get(Get(d, K_total), key)
  ELSE Num(0)

\* the normalizer has returned the fallback dish
FellBack == Returns /\ ValidPositions(data) = {}

\* C26: when no valid dish is found, each nutrition field of the fallback
\* dish is taken from the top-level legacy field whenever the input has that
\* field, also when its value is 0; from the field of total only when the
\* top-level field is absent; and is 0 only when both are absent.
C26_FallbackPreference ==
  FellBack =>
    result.value.dishes[1].nutrition =
      formatNutritionWithUnits(
        Obj(<< <<K_calories, PreferredSource(data, K_calories)>>,
               <<K_protein_g, PreferredSource(data, K_protein_g)>>,
               <<K_carbs_g, PreferredSource(data, K_carbs_g)>>,
               <<K_fat_g, PreferredSource(data, K_fat_g)>> >>))

----------------------------------------------------------------------------
(* Claims about the order of the classification *)

\* the status the original error reports: the value of the first place that
\* is set, and none when no place is set
ReportedStatus(e) ==
  IF \A i \in 1..3 : ~Truthy(StatusPlaces(e)[i]) THEN Undefined
  ELSE StatusPlaces(e)[CHOOSE i \in 1..3 :
                         /\ Truthy(StatusPlaces(e)[i])
                         /\ \A j \in 1..(i - 1) : ~Truthy(StatusPlaces(e)[j])]

MeetsUnauthorized(e) ==
  FirstStatusIn(e, {401, 403}) \/ Mentions(e, UnauthorizedWords)

MeetsRateLimited(e) ==
  FirstStatusIn(e, {429}) \/ Mentions(e, RateLimitWords)

\* C27: classification is first match wins, in the order Unauthorized,
\* RateLimited, other. An error that meets an Unauthorized criterion and a
\* RateLimited criterion is classified Unauthorized, with status 401 and
\* code invalid_api_key; an error that meets neither keeps the code of the
\* original error and the status the original error reports.
C27_FirstMatchWins ==
  pc = "classified" =>
    /\ MeetsUnauthorized(thrown) /\ MeetsRateLimited(thrown)
         => IsUnauthorized(outcome.error)
    /\ ~MeetsUnauthorized(thrown) /\ ~MeetsRateLimited(thrown)
         => /\ outcome.error.code = thrown.code
            /\ outcome.error.status = ReportedStatus(thrown)

\* an error with status 429 and the message "Permission denied" was
\* classified Unauthorized
C27_Witness ==
  /\ pc = "classified"
  /\ thrown.status = Whole(429)
  /\ thrown.message = M_Permission_denied
  /\ IsUnauthorized(outcome.error)

----------------------------------------------------------------------------
(* Claims about the order of the steps of a request *)

IsPrefix(s, t) == Len(s) <= Len(t) /\ \A i \in 1..Len(s) : s[i] = t[i]

Called(name) == \E i \in 1..Len(calls) : calls[i] = name

\* C28: within one request the steps are ordered: the credential check, the
\* model call, the JSON extraction, the normalization, and only then the
\* persistence. Entry.create is called at most once, after the model call,
\* and only when the analysis has returned its full normalized result; it is
\* never called in a request whose analysis failed.
C28_StepOrder ==
  /\ [](/\ IsPrefix(calls, <<"generateContent", "Entry.create">>)
        /\ Called("generateContent") => ~apiKeyMissing(apiKey)
        /\ extracted # None => Called("generateContent") /\ pc \notin {"call", "awaiting"}
        /\ result # None => extracted # None /\ ~extracted.threw
        /\ Called("Entry.create")
             => /\ outcome # None /\ ~outcome.rejected
                /\ result # None /\ ~result.threw
                /\ outcome.value = result.value
        /\ entries # <<>> => Called("Entry.create"))
  /\ [][calls' # calls /\ calls'[Len(calls')] = "Entry.create"
          => pc = "settled" /\ ~outcome.rejected /\ outcome' = outcome]_vars

\* a request went through every step and its entry was saved
C28_Witness ==
  /\ pc = "responded"
  /\ calls = <<"generateContent", "Entry.create">>
  /\ Len(entries) = 1
  /\ outcome.value = result.value

----------------------------------------------------------------------------
(* Claims about the service module the routes require *)

\* C29: every result an operation of the service module required by the
\* routes returns carries a total whose calories.value is a number, so the
\* defensive check of the routes does not reject it.
C29_RequiredModuleHasTotal ==
  pc = "settled" /\ ~outcome.rejected => ~caloriesMissing(outcome.value)

----------------------------------------------------------------------------
(* Claims about the total of a fallback result *)

\* C30: whenever the normalizer returns the fallback dish, the returned total
\* equals the nutrition of that dish field by field, also for an input that
\* carries both top-level fields and a total object with other values.
C30_FallbackTotalAgrees ==
  FellBack => result.value.total = result.value.dishes[1].nutrition

====
